---- MODULE Spec2Model ----
(***************************************************************************)
(* Living Scroll character sheet: the rehydration engine (RulesEngine),    *)
(* the character builder dialog with its Creation and Leveling tabs, and   *)
(* the JSON character library.                                             *)
(*                                                                         *)
(* The specifications of the module:                                       *)
(*   Spec        - RulesEngine.hydrate called repeatedly on one Decision   *)
(*                 Record drawn from a bounded set                         *)
(*   SpecBuilder - one CharacterBuilderDialog session                      *)
(*   SpecSlots   - the skill slots of the Leveling tab, over a builder     *)
(*                 opened on existing data                                 *)
(*   SpecLibrary - a CharacterLibrary with its storage directory           *)
(*   SpecRegistry - the record registry of a CharacterLibrary: create,     *)
(*                 update, delete, set_active, ensure_active, replace_all, *)
(*                 load                                                    *)
(*   SpecStorage - a CharacterLibrary loaded from a directory found on disk*)
(*   SpecCompendium - Compendium.load and its process-wide cache           *)
(***************************************************************************)
EXTENDS Integers, Sequences, FiniteSets, TLC

VARIABLES
    data,        \* engine: the CharacterData handed to RulesEngine.hydrate
    sheets,      \* engine: the CharacterSheets returned by the hydrate calls so far
    dataset,     \* engine: the list objects of the dataset's records, as they stand
    sheetRefs,   \* engine: the list objects each returned sheet holds
    recData,     \* builder: the data of the record the dialog was opened on
    bData,       \* builder: CharacterBuilderDialog._data, shared by both tabs
    dlgSheet,    \* builder: the sheet object held by the dialog and CreationTab
    tabSheet,    \* builder: LevelingTab._sheet
    shared,      \* builder: LevelingTab._sheet is still the dialog's sheet object
    entries,     \* builder: the LevelEntry widgets of the Leveling tab
    records,     \* library: CharacterLibrary._records, identifier -> record
    order,       \* library: CharacterLibrary._order
    active_id,   \* library: CharacterLibrary._active_id
    files,       \* storage: the <identifier>.json payloads
    meta,        \* storage: _meta.json
    settings,    \* compendium: get_settings(), the ruleset and active modules
    cache,       \* compendium: _COMPENDIUM_CACHE, cache key -> instance
    created,     \* compendium: the Compendium instances built from disk so far
    calls        \* compendium: the load and clear calls made so far

engineVars == <<data, sheets, dataset, sheetRefs>>
builderVars == <<recData, bData, dlgSheet, tabSheet, shared, entries>>
libraryVars == <<records, order, active_id, files, meta>>
compendiumVars == <<settings, cache, created, calls>>
vars == <<data, sheets, dataset, sheetRefs, recData, bData, dlgSheet, tabSheet, shared, entries,
          records, order, active_id, files, meta,
          settings, cache, created, calls>>

(***************************************************************************)
(* Bounds                                                                  *)
(***************************************************************************)
MaxEntries == 4       \* longest data.classes drawn for the engine
MaxLevel == 3         \* largest level marker drawn for a class-level entry
MaxCalls == 2         \* hydrate calls per behaviour
MaxChoices == 2       \* feature choices drawn for one Decision Record
MaxBuilderEntries == 2  \* longest data.classes of a builder session
MaxSubclassEntries == 3 \* longest data.classes drawn with subclasses
MaxCaseEntries == 3     \* longest data.classes drawn with mixed-case class names

(***************************************************************************)
(* Python values                                                           *)
(***************************************************************************)
None == "<None>"

\* an Optional[dict] is a sequence of at most one record
NoRecord == <<>>

Truthy(v) == v # None /\ v # ""

Max(a, b) == IF a >= b THEN a ELSE b

Contains(seq, x) == \E i \in 1..Len(seq) : seq[i] = x

\* list.extend(other)
Extend(list, other) == list \o other

(***************************************************************************)
(* Rule dataset (Compendium)                                               *)
(***************************************************************************)
Abilities == {"STR", "DEX", "CON", "INT", "WIS", "CHA"}

SkillNames == {"Stealth", "Arcana", "Insight"}

\* str.lower() over the names that occur in the model
Lower(s) ==
    CASE s = "Rogue" -> "rogue"
      [] s = "Wizard" -> "wizard"
      [] s = "Bard" -> "bard"
      [] s = "Criminal" -> "criminal"
      [] s = "Sage" -> "sage"
      [] s = "Stealth" -> "stealth"
      [] s = "Arcana" -> "arcana"
      [] s = "Insight" -> "insight"
      [] OTHER -> s

\* _key(name): lower-case, runs of non-alphanumerics collapsed to "_".
\* The names of the model are single alphanumeric words, so only the
\* lower-casing is visible.
Key(name) == Lower(name)

\* payload["classes"], as records keyed by name
ClassRecords == <<
    [name |-> "Rogue",
     proficiencies |-> [armor |-> <<"Light">>,
                        weapons |-> <<"Simple", "Finesse">>,
                        skills_choose |-> 2,
                        skill_list |-> <<"Stealth", "Insight">>],
     saves |-> <<"DEX", "INT">>,
     has_multiclassing |-> TRUE,
     multiclassing |-> [armor |-> <<"Light">>, weapons |-> <<>>],
     progression |-> <<[level |-> 1, features |-> <<"Sneak Attack">>],
                       [level |-> 2, features |-> <<"Skilled">>]>>,
     subclasses |-> <<>>],
    [name |-> "Wizard",
     proficiencies |-> [armor |-> <<>>,
                        weapons |-> <<"Simple">>,
                        skills_choose |-> 1,
                        skill_list |-> <<"Arcana", "Insight">>],
     saves |-> <<"INT", "WIS">>,
     has_multiclassing |-> FALSE,
     multiclassing |-> [armor |-> <<>>, weapons |-> <<>>],
     progression |-> <<>>,
     subclasses |-> <<>>]
>>

\* payload["feats"]
FeatRecords == <<
    [name |-> "Skilled",
     attribute_increase |-> <<>>,
     proficiency_skills |-> <<"Insight", "Arcana">>,
     expertise_skills |-> <<"Stealth">>]
>>

\* payload["backgrounds"]
BackgroundRecords == <<
    [name |-> "Criminal",
     proficiencies |-> [skills |-> <<"Stealth">>, tools |-> <<"Thieves", "Thieves">>],
     equipment |-> <<[name |-> "Crowbar"]>>]
>>

\* _index_by_name(records)[key], None when the key is not indexed.
\* A later record of the same key overwrites an earlier one.
IndexLookup(recs, key) ==
    LET hits == {i \in 1..Len(recs) : Key(recs[i].name) = key}
    IN IF hits = {} THEN NoRecord
       ELSE <<recs[CHOOSE i \in hits : \A j \in hits : j <= i]>>

\* a lookup miss falls back to the first class of the dataset
class_recordFallback(name) ==
    IF IndexLookup(ClassRecords, Key(name)) = NoRecord
    THEN <<ClassRecords[1]>>
    ELSE IndexLookup(ClassRecords, Key(name))

class_record(name) == IndexLookup(ClassRecords, Key(name))

\* a lookup miss falls back to the first background of the dataset
background_recordFallback(name) ==
    IF IndexLookup(BackgroundRecords, Key(name)) = NoRecord
    THEN <<BackgroundRecords[1]>>
    ELSE IndexLookup(BackgroundRecords, Key(name))

background_record(name) == IndexLookup(BackgroundRecords, Key(name))

(***************************************************************************)
(* CharacterSheet and CharacterData                                        *)
(***************************************************************************)
\* ProficiencySet()
EmptyProficiencySet ==
    [skills |-> [s \in SkillNames |-> 0],
     armor |-> <<>>, weapons |-> <<>>, tools |-> <<>>]

\* CharacterSheet()
EmptySheet ==
    [identity |-> [name |-> "", ancestry |-> "", ancestry_subtype |-> "",
                   background |-> "", alignment |-> "", player |-> "",
                   experience |-> 0, level_cap |-> 20, portrait_path |-> "",
                   classes |-> <<>>],
     abilities |-> [a \in Abilities |-> [score |-> 10, save_proficient |-> FALSE]],
     proficiencies |-> EmptyProficiencySet,
     equipment |-> <<>>]

\* IdentityData()
DefaultIdentity ==
    [name |-> "", ancestry |-> "", ancestry_subtype |-> "", background |-> "",
     alignment |-> "", player_name |-> "", portrait_path |-> "",
     xp |-> 0, level_cap |-> 20]

DefaultBaseStats == [a \in Abilities |-> 10]

\* CharacterData(); the id is a uuid4 drawn at construction
DefaultData ==
    [version |-> "1.0",
     id |-> "d0",
     identity |-> DefaultIdentity,
     base_stats |-> DefaultBaseStats,
     classes |-> <<>>,
     background_choices |-> <<>>,
     equipment |-> <<>>,
     notes |-> <<>>]

\* ClassLevelData(class_name, level)
ClassLevelData(class_name, level) ==
    [class_name |-> class_name, level |-> level, subclass |-> None,
     feature_choices |-> <<>>]

(***************************************************************************)
(* Feature-choice keys: a key is the sequence of its "_"-separated words,  *)
(* so that "rogue_skill_1" is <<"rogue", "skill", "1">>.                   *)
(***************************************************************************)
\* "_skill_" in feat_key
HasSkillMarker(key) == \E i \in 2..(Len(key) - 1) : key[i] = "skill"

\* "_expertise" in feat_key
HasExpertiseMarker(key) == \E i \in 2..Len(key) : key[i] = "expertise"

\* "_asi_" in feat_key
HasAsiMarker(key) == \E i \in 2..(Len(key) - 1) : key[i] = "asi"

\* dict lookup in a feature_choices map kept as a sequence of [key, value]
\* in insertion order: d.get(key, "")
ChoiceGet(choices, key) ==
    IF \E i \in 1..Len(choices) : choices[i].key = key
    THEN choices[CHOOSE i \in 1..Len(choices) : choices[i].key = key].value
    ELSE ""

(***************************************************************************)
(* RulesEngine                                                             *)
(***************************************************************************)
\* the sheet object of the call before is filled in again
NewSheetReused(previous) == previous

\* hydrate line 26: sheet = CharacterSheet(); the sheet of the previous
\* call is not an input of the new one
NewSheet(previous) == EmptySheet

_apply_identity(sh, d) ==
    [sh EXCEPT !.identity.name = d.identity.name,
               !.identity.ancestry = d.identity.ancestry,
               !.identity.ancestry_subtype = d.identity.ancestry_subtype,
               !.identity.background = d.identity.background,
               !.identity.alignment = d.identity.alignment,
               !.identity.player = d.identity.player_name,
               !.identity.experience = d.identity.xp,
               !.identity.level_cap = d.identity.level_cap,
               !.identity.portrait_path = d.identity.portrait_path]

\* the ability modifier is stored where the score belongs
_apply_base_statsAsModifier(sh, d) ==
    [sh EXCEPT !.abilities =
        [a \in Abilities |->
            IF a \in DOMAIN d.base_stats
            THEN [sh.abilities[a] EXCEPT !.score = (d.base_stats[a] - 10) \div 2]
            ELSE sh.abilities[a]]]

_apply_base_stats(sh, d) ==
    [sh EXCEPT !.abilities =
        [a \in Abilities |->
            IF a \in DOMAIN d.base_stats
            THEN [sh.abilities[a] EXCEPT !.score = d.base_stats[a]]
            ELSE sh.abilities[a]]]

\* hydrate line 35: sheet.proficiencies = ProficiencySet()
ResetProficiencies(sh) == [sh EXCEPT !.proficiencies = EmptyProficiencySet]

\* for tool in tools: if tool not in sheet.tools: append
RECURSIVE AddTools(_, _, _)
AddTools(tools, listed, i) ==
    IF i > Len(listed) THEN tools
    ELSE AddTools(IF Contains(tools, listed[i]) THEN tools
                  ELSE Append(tools, listed[i]), listed, i + 1)

_apply_background(sh, d) ==
    LET bg_id == d.identity.background
        background == background_record(bg_id)
    IN IF ~Truthy(bg_id) THEN sh
       ELSE IF background = NoRecord THEN sh
       ELSE LET profs == background[1].proficiencies
            IN [sh EXCEPT
                  !.proficiencies.skills =
                      [s \in SkillNames |->
                          IF Contains(profs.skills, s) THEN 1 ELSE @[s]],
                  !.proficiencies.tools = AddTools(@, profs.tools, 1)]

\* the consolidated entry is looked up by its lower-cased name
FindClassFolded(classes, name) ==
    IF \E i \in 1..Len(classes) : Lower(classes[i].name) = Lower(name)
    THEN CHOOSE i \in 1..Len(classes) :
            /\ Lower(classes[i].name) = Lower(name)
            /\ \A j \in 1..(i - 1) : Lower(classes[j].name) # Lower(name)
    ELSE 0

\* next((c for c in sheet.identity.classes if c.name == name), None), as an
\* index into the list; 0 when there is none
FindClass(classes, name) ==
    IF \E i \in 1..Len(classes) : classes[i].name = name
    THEN CHOOSE i \in 1..Len(classes) :
            /\ classes[i].name = name
            /\ \A j \in 1..(i - 1) : classes[j].name # name
    ELSE 0

\* the level of the entry processed last replaces the consolidated level
ConsolidateLastLevel(sh, cls_data) ==
    LET classes == sh.identity.classes
        k == FindClass(classes, cls_data.class_name)
    IN IF k # 0
       THEN [sh EXCEPT !.identity.classes[k] =
                [name |-> @.name,
                 level |-> cls_data.level,
                 subclass |-> IF Truthy(cls_data.subclass)
                              THEN cls_data.subclass ELSE @.subclass]]
       ELSE [sh EXCEPT !.identity.classes =
                Append(@, [name |-> cls_data.class_name,
                           level |-> cls_data.level,
                           subclass |-> cls_data.subclass])]

\* the subclass of every entry of the class replaces the consolidated one
ConsolidateClearing(sh, cls_data) ==
    LET classes == sh.identity.classes
        k == FindClass(classes, cls_data.class_name)
    IN IF k # 0
       THEN [sh EXCEPT !.identity.classes[k] =
                [name |-> @.name,
                 level |-> Max(@.level, cls_data.level),
                 subclass |-> cls_data.subclass]]
       ELSE [sh EXCEPT !.identity.classes =
                Append(@, [name |-> cls_data.class_name,
                           level |-> cls_data.level,
                           subclass |-> cls_data.subclass])]

\* _apply_classes lines 114-131: find or create the consolidated entry
Consolidate(sh, cls_data) ==
    LET classes == sh.identity.classes
        k == FindClass(classes, cls_data.class_name)
    IN IF k # 0
       THEN [sh EXCEPT !.identity.classes[k] =
                [name |-> @.name,
                 level |-> Max(@.level, cls_data.level),
                 subclass |-> IF Truthy(cls_data.subclass)
                              THEN cls_data.subclass ELSE @.subclass]]
       ELSE [sh EXCEPT !.identity.classes =
                Append(@, [name |-> cls_data.class_name,
                           level |-> cls_data.level,
                           subclass |-> cls_data.subclass])]

\* for save in saves: if save in sheet.abilities: save_proficient = True
SetSaves(abilities, saves) ==
    [a \in Abilities |->
        IF Contains(saves, a)
        THEN [abilities[a] EXCEPT !.save_proficient = TRUE]
        ELSE abilities[a]]

\* primacy tested as "the list is still empty" after the entry was appended
IsPrimaryAfterAppend(classes) == Len(classes) = 0

\* every newly introduced class is taken for the primary one
IsPrimaryAlways(classes) == TRUE

\* is_primary = (sheet.identity.classes[0] == entry), entry being the
\* element just appended
IsPrimary(classes) == classes[1] = classes[Len(classes)]

\* the first class that has a record is taken for the primary one
ApplyClassBaseFirstKnown(sh, cls_data) ==
    LET classes == sh.identity.classes
        is_primary == \A k \in 1..(Len(classes) - 1) :
                          class_record(Lower(classes[k].name)) = NoRecord
        found == class_record(Lower(cls_data.class_name))
        class_record_ == found[1]
    IN IF found = NoRecord THEN sh
       ELSE IF is_primary
       THEN [sh EXCEPT
               !.proficiencies.armor = Extend(@, class_record_.proficiencies.armor),
               !.proficiencies.weapons = Extend(@, class_record_.proficiencies.weapons),
               !.abilities = SetSaves(@, class_record_.saves)]
       ELSE IF class_record_.has_multiclassing
       THEN [sh EXCEPT
               !.proficiencies.armor = Extend(@, class_record_.multiclassing.armor),
               !.proficiencies.weapons = Extend(@, class_record_.multiclassing.weapons)]
       ELSE sh

\* _apply_classes lines 134-165: base features of a newly introduced class
ApplyClassBase(sh, cls_data) ==
    LET is_primary == IsPrimary(sh.identity.classes)
        found == class_record(Lower(cls_data.class_name))
        class_record_ == found[1]
    IN IF found = NoRecord THEN sh
       ELSE IF is_primary
       THEN [sh EXCEPT
               !.proficiencies.armor = Extend(@, class_record_.proficiencies.armor),
               !.proficiencies.weapons = Extend(@, class_record_.proficiencies.weapons),
               !.abilities = SetSaves(@, class_record_.saves)]
       ELSE IF class_record_.has_multiclassing
       THEN [sh EXCEPT
               !.proficiencies.armor = Extend(@, class_record_.multiclassing.armor),
               !.proficiencies.weapons = Extend(@, class_record_.multiclassing.weapons)]
       ELSE sh

\* a proficiency choice written without looking at the current level
ApplyChoiceDowngrading(sh, feat_key, selection) ==
    IF HasSkillMarker(feat_key) /\ Truthy(selection)
    THEN IF HasExpertiseMarker(feat_key)
         THEN [sh EXCEPT !.proficiencies.skills[selection] = 2]
         ELSE [sh EXCEPT !.proficiencies.skills[selection] = 1]
    ELSE sh

\* a key holding _expertise grants expertise without holding _skill_
ApplyChoiceByExpertiseMarker(sh, feat_key, selection) ==
    IF Truthy(selection) /\ HasExpertiseMarker(feat_key)
    THEN [sh EXCEPT !.proficiencies.skills[selection] = 2]
    ELSE IF HasSkillMarker(feat_key) /\ Truthy(selection)
    THEN IF sh.proficiencies.skills[selection] < 2
         THEN [sh EXCEPT !.proficiencies.skills[selection] = 1]
         ELSE sh
    ELSE sh

\* expertise is granted only in a skill the sheet is already proficient in
ApplyChoiceUpgradingOnly(sh, feat_key, selection) ==
    IF HasSkillMarker(feat_key) /\ Truthy(selection)
    THEN IF HasExpertiseMarker(feat_key)
         THEN IF sh.proficiencies.skills[selection] >= 1
              THEN [sh EXCEPT !.proficiencies.skills[selection] = 2]
              ELSE sh
         ELSE IF sh.proficiencies.skills[selection] < 2
              THEN [sh EXCEPT !.proficiencies.skills[selection] = 1]
              ELSE sh
    ELSE sh

\* _apply_classes lines 170-186: one item of cls_data.feature_choices
ApplyChoice(sh, feat_key, selection) ==
    IF HasSkillMarker(feat_key) /\ Truthy(selection)
    THEN IF HasExpertiseMarker(feat_key)
         THEN [sh EXCEPT !.proficiencies.skills[selection] = 2]
         ELSE IF sh.proficiencies.skills[selection] < 2
              THEN [sh EXCEPT !.proficiencies.skills[selection] = 1]
              ELSE sh
    ELSE sh

\* the first m items of a feature_choices map, in insertion order
RECURSIVE ApplyChoices(_, _, _)
ApplyChoices(sh, choices, m) ==
    IF m = 0 THEN sh
    ELSE LET before == ApplyChoices(sh, choices, m - 1)
         IN ApplyChoice(before, choices[m].key, choices[m].value)

\* the feature choices are read only when the entry introduces its class
ApplyEntryUpToNewClassOnly(sh, cls_data, m) ==
    LET is_new_class == FindClass(sh.identity.classes, cls_data.class_name) = 0
        consolidated == Consolidate(sh, cls_data)
    IN IF is_new_class
       THEN ApplyChoices(ApplyClassBase(consolidated, cls_data),
                         cls_data.feature_choices, m)
       ELSE consolidated

\* one iteration of the loop of _apply_classes, up to and including the
\* first m feature choices of the entry
ApplyEntryUpTo(sh, cls_data, m) ==
    LET is_new_class == FindClass(sh.identity.classes, cls_data.class_name) = 0
        consolidated == Consolidate(sh, cls_data)
        based == IF is_new_class THEN ApplyClassBase(consolidated, cls_data)
                 ELSE consolidated
    IN ApplyChoices(based, cls_data.feature_choices, m)

ApplyEntry(sh, cls_data) ==
    ApplyEntryUpTo(sh, cls_data, Len(cls_data.feature_choices))

\* the first n entries of data.classes
RECURSIVE ApplyClassesUpTo(_, _, _)
ApplyClassesUpTo(sh, classes, n) ==
    IF n = 0 THEN sh
    ELSE ApplyEntry(ApplyClassesUpTo(sh, classes, n - 1), classes[n])

_apply_classes(sh, d) == ApplyClassesUpTo(sh, d.classes, Len(d.classes))

\* the proficiency set of the sheet before is carried into the new sheet
BeforeClassesKeeping(previous, d) ==
    _apply_background(
        [_apply_base_stats(_apply_identity(NewSheet(previous), d), d)
            EXCEPT !.proficiencies = previous.proficiencies], d)

\* the sheet as it stands before the loop of _apply_classes
BeforeClasses(previous, d) ==
    _apply_background(
        ResetProficiencies(
            _apply_base_stats(_apply_identity(NewSheet(previous), d), d)), d)

\* RulesEngine.hydrate(data); previous is the sheet of the call before
hydrate(previous, d) == _apply_classes(BeforeClasses(previous, d), d)

(***************************************************************************)
(* hydrate over objects: which list and which identity object each         *)
(* statement writes to                                                     *)
(***************************************************************************)
\* the record of that name
RecordNamed(recs, name) ==
    recs[CHOOSE i \in 1..Len(recs) : recs[i].name = name]

\* the list objects of the dataset's records, by record name and member
DatasetLists ==
    LET ids == {<<ClassRecords[r].name, f>> :
                    r \in 1..Len(ClassRecords),
                    f \in {"armor", "weapons", "mc_armor", "mc_weapons", "saves"}}
               \cup {<<BackgroundRecords[b].name, f>> :
                    b \in 1..Len(BackgroundRecords), f \in {"skills", "tools"}}
    IN [id \in ids |->
          CASE id[2] = "armor" -> RecordNamed(ClassRecords, id[1]).proficiencies.armor
            [] id[2] = "weapons" -> RecordNamed(ClassRecords, id[1]).proficiencies.weapons
            [] id[2] = "mc_armor" -> RecordNamed(ClassRecords, id[1]).multiclassing.armor
            [] id[2] = "mc_weapons" -> RecordNamed(ClassRecords, id[1]).multiclassing.weapons
            [] id[2] = "saves" -> RecordNamed(ClassRecords, id[1]).saves
            [] id[2] = "skills" -> RecordNamed(BackgroundRecords, id[1]).proficiencies.skills
            [] id[2] = "tools" -> RecordNamed(BackgroundRecords, id[1]).proficiencies.tools]

\* the lists ProficiencySet() creates for a new sheet
OwnLists == {<<"sheet", "armor">>, <<"sheet", "weapons">>, <<"sheet", "tools">>}

\* the objects at the start of a hydrate call: the dataset's lists as they
\* stand, the Decision Record's identity, and the new sheet with its own
\* identity and, from line 35 on, its own empty lists
ObjectsAtStart(lists, d) ==
    [lists |-> [id \in DOMAIN lists \cup OwnLists |->
                   IF id \in OwnLists THEN <<>> ELSE lists[id]],
     refs |-> [armor |-> <<"sheet", "armor">>,
               weapons |-> <<"sheet", "weapons">>,
               tools |-> <<"sheet", "tools">>],
     identity |-> [sheet |-> [f \in DOMAIN EmptySheet.identity \ {"classes"} |->
                                 EmptySheet.identity[f]],
                   data |-> d.identity]]

\* _apply_identity line 53: i_dest = sheet.identity
IdentityDest == "sheet"

\* _apply_identity lines 56-64: the nine assignments i_dest.x = i_src.y
ObjApplyIdentity(h) ==
    LET i_src == h.identity.data
        written == [name |-> i_src.name,
                    ancestry |-> i_src.ancestry,
                    ancestry_subtype |-> i_src.ancestry_subtype,
                    background |-> i_src.background,
                    alignment |-> i_src.alignment,
                    player |-> i_src.player_name,
                    experience |-> i_src.xp,
                    level_cap |-> i_src.level_cap,
                    portrait_path |-> i_src.portrait_path]
    IN IF IdentityDest = "sheet"
       THEN [h EXCEPT !.identity.sheet = written]
       ELSE [h EXCEPT !.identity.data =
                [f \in DOMAIN @ |-> IF f \in DOMAIN written THEN written[f] ELSE @[f]]]

\* the record's list is taken over while the sheet's list is still empty
ExtendListAliasing(h, member, source) ==
    IF h.lists[h.refs[member]] = <<>>
    THEN [h EXCEPT !.refs[member] = source]
    ELSE [h EXCEPT !.lists[h.refs[member]] = Extend(@, h.lists[source])]

\* sheet.proficiencies.<member>.extend(<list of the record>): the list the
\* sheet holds grows in place by the elements of the record's list
ExtendList(h, member, source) ==
    [h EXCEPT !.lists[h.refs[member]] = Extend(@, h.lists[source])]

\* _apply_background lines 96-98: tools.append on the list the sheet holds
ObjApplyBackground(h, d) ==
    LET bg_id == d.identity.background
        background == background_record(bg_id)
    IN IF ~Truthy(bg_id) THEN h
       ELSE IF background = NoRecord THEN h
       ELSE [h EXCEPT !.lists[h.refs.tools] =
                AddTools(@, h.lists[<<background[1].name, "tools">>], 1)]

\* _apply_classes lines 139-161 for the entry cls_data, the sheet standing
\* as sh when the loop reaches the entry
ObjApplyClassBase(h, sh, cls_data) ==
    LET is_new_class == FindClass(sh.identity.classes, cls_data.class_name) = 0
        is_primary == IsPrimary(Consolidate(sh, cls_data).identity.classes)
        found == class_record(Lower(cls_data.class_name))
    IN IF ~is_new_class \/ found = NoRecord THEN h
       ELSE IF is_primary
       THEN ExtendList(ExtendList(h, "armor", <<found[1].name, "armor">>),
                       "weapons", <<found[1].name, "weapons">>)
       ELSE IF found[1].has_multiclassing
       THEN ExtendList(ExtendList(h, "armor", <<found[1].name, "mc_armor">>),
                       "weapons", <<found[1].name, "mc_weapons">>)
       ELSE h

\* the loop of _apply_classes over the first n entries, the objects h and
\* the sheet sh carried along
RECURSIVE ObjApplyClassesUpTo(_, _, _)
ObjApplyClassesUpTo(start, classes, n) ==
    IF n = 0 THEN start
    ELSE \* the state before entry n is bound once
         CHOOSE next \in
             {[h |-> ObjApplyClassBase(prev.h, prev.sh, classes[n]),
               sh |-> ApplyEntry(prev.sh, classes[n])] :
                  prev \in {ObjApplyClassesUpTo(start, classes, n - 1)}} : TRUE

\* the objects when hydrate(d) returns
ObjectsAfterHydrate(lists, d) ==
    ObjApplyClassesUpTo(
        [h |-> ObjApplyBackground(ObjApplyIdentity(ObjectsAtStart(lists, d)), d),
         sh |-> BeforeClasses(EmptySheet, d)],
        d.classes, Len(d.classes)).h

(***************************************************************************)
(* Engine specification: one Decision Record, hydrated MaxCalls times      *)
(***************************************************************************)
EngineClassNames == {"rogue", "wizard", "bard"}

EntrySet ==
    {ClassLevelData(c, l) : c \in EngineClassNames, l \in 1..MaxLevel}

SeqsUpTo(S, n) == UNION {[1..k -> S] : k \in 0..n}

\* Decision Records that differ in their class progression
ProgressionData ==
    {[DefaultData EXCEPT !.classes = cs] : cs \in SeqsUpTo(EntrySet, MaxEntries)}

\* "rogue_skill_1", "prodigy_skill_expertise", "rogue_expertise_1", "rogue_asi_4"
ChoiceKeys ==
    {<<"rogue", "skill", "1">>, <<"prodigy", "skill", "expertise">>,
     <<"rogue", "expertise", "1">>, <<"rogue", "asi", "4">>}

ChoiceValues == {"", "Stealth", "Arcana"}

\* dicts of at most n items: insertion-ordered, keys distinct
ChoiceMaps(n) ==
    {m \in SeqsUpTo([key : ChoiceKeys, value : ChoiceValues], n) :
        \A i, j \in 1..Len(m) : i # j => m[i].key # m[j].key}

\* Decision Records that differ in the feature choices of their first two
\* class-level entries
ChoiceData ==
    {[DefaultData EXCEPT !.classes =
        <<[ClassLevelData(c1, 1) EXCEPT !.feature_choices = mm[1]],
          [ClassLevelData(c2, IF c2 = c1 THEN 2 ELSE 1)
              EXCEPT !.feature_choices = mm[2]]>>] :
        c1 \in {"rogue", "bard"}, c2 \in {"rogue", "bard"},
        mm \in {pair \in ChoiceMaps(MaxChoices) \X ChoiceMaps(MaxChoices) :
                    Len(pair[1]) + Len(pair[2]) <= MaxChoices}}

\* Decision Records that differ in their background
BackgroundData ==
    {[DefaultData EXCEPT !.identity.background = b, !.classes = cs] :
        b \in {"Criminal", "criminal", "Sage"},
        cs \in {<<[ClassLevelData("rogue", 1) EXCEPT !.feature_choices = m]>> :
                    m \in ChoiceMaps(1)}}

\* Decision Records that differ in their inventory
EquipmentData ==
    {[DefaultData EXCEPT !.identity.background = b, !.equipment = e] :
        b \in {"", "Criminal"},
        e \in {<<>>, <<[name |-> "Rope"]>>, <<[name |-> "Rope"], [name |-> "Torch"]>>}}

\* ClassLevelData.subclass: Optional[str]
SubclassValues == {None, "", "Thief", "Scout"}

\* Decision Records that differ in the subclasses of their entries
SubclassData ==
    {[DefaultData EXCEPT !.classes = cs] :
        cs \in SeqsUpTo({[ClassLevelData(c, 1) EXCEPT !.subclass = s] :
                            c \in {"rogue", "wizard"}, s \in SubclassValues},
                        MaxSubclassEntries)}

\* Decision Records whose class names differ in letter case
CaseData ==
    {[DefaultData EXCEPT !.classes = cs] :
        cs \in SeqsUpTo({ClassLevelData(c, 1) : c \in {"Rogue", "rogue", "Wizard", "bard"}},
                        MaxCaseEntries)}

\* "skilled_attribute", "notes", next to "rogue_skill_1"
OtherKeys == {<<"skilled", "attribute">>, <<"notes">>, <<"rogue", "skill", "1">>}

\* Decision Records whose first level holds keys the engine does not know
OtherKeyData ==
    {[DefaultData EXCEPT !.classes =
        <<[ClassLevelData("rogue", 1) EXCEPT !.feature_choices = m]>>] :
        m \in {c \in SeqsUpTo([key : OtherKeys, value : ChoiceValues], MaxChoices) :
                  \A i, j \in 1..Len(c) : i # j => c[i].key # c[j].key}}

EngineData ==
    ProgressionData \cup ChoiceData \cup BackgroundData \cup EquipmentData
        \cup SubclassData \cup CaseData \cup OtherKeyData

\* the builder is closed while the engine is exercised on its own
BuilderIdle ==
    /\ recData = DefaultData
    /\ bData = DefaultData
    /\ dlgSheet = EmptySheet
    /\ tabSheet = EmptySheet
    /\ shared = TRUE
    /\ entries = <<>>

\* the settings stay at their defaults and the one dataset stays cached
\* while the other parts are exercised
CompendiumIdle ==
    /\ settings = [ruleset |-> "dnd_2024", active_modules |-> {}]
    /\ cache = <<>>
    /\ created = 0
    /\ calls = <<>>

\* no library is open while the engine or the builder is exercised
LibraryIdle ==
    /\ records = <<>>
    /\ order = <<>>
    /\ active_id = None
    /\ files = <<>>
    /\ meta = [active_id |-> None, order |-> <<>>]

Init ==
    /\ data \in EngineData
    /\ sheets = <<>>
    /\ dataset = DatasetLists
    /\ sheetRefs = <<>>
    /\ BuilderIdle
    /\ LibraryIdle
    /\ CompendiumIdle

\* the sheet left by the call before, a fresh one before the first call
Previous == IF sheets = <<>> THEN EmptySheet ELSE sheets[Len(sheets)]

\* engine.hydrate(data)
Hydrate ==
    /\ Len(sheets) < MaxCalls
    /\ sheets' = Append(sheets, hydrate(Previous, data))
    /\ \E after \in {ObjectsAfterHydrate(dataset, data)} :
          /\ data' = [data EXCEPT !.identity = after.identity.data]
          /\ dataset' = [id \in DOMAIN dataset |-> after.lists[id]]
          /\ sheetRefs' = Append(sheetRefs, after.refs)
    /\ UNCHANGED <<builderVars, libraryVars, compendiumVars>>

Next == Hydrate

Spec == Init /\ [][Next]_vars

(***************************************************************************)
(* Choice resolution helpers (selection_helpers) and FeatureOptionChoice   *)
(***************************************************************************)
\* ALL_SKILLS, in the order the helpers walk it
AllSkills == <<"Arcana", "Insight", "Stealth">>

\* FeatureOptionChoice(label, value, enabled=True)
FeatureOptionChoice(label, value) == [label |-> label, value |-> value]

\* the pending selections are not taken out
get_available_skill_proficienciesKeepingPending(sh, pending) ==
    LET open == SelectSeq(AllSkills, LAMBDA s : sh.proficiencies.skills[s] < 1)
    IN [i \in 1..Len(open) |-> FeatureOptionChoice(open[i], open[i])]

\* the skills the sheet is proficient in are offered too
get_available_skill_proficienciesTakenToo(sh, pending) ==
    LET open == SelectSeq(AllSkills, LAMBDA s : s \notin pending)
    IN [i \in 1..Len(open) |-> FeatureOptionChoice(open[i], open[i])]

\* get_available_skill_proficiencies(sheet, pending): the skills below
\* level 1 that are not among the pending selections
get_available_skill_proficiencies(sh, pending) ==
    LET open == SelectSeq(AllSkills,
                    LAMBDA s : sh.proficiencies.skills[s] < 1 /\ s \notin pending)
    IN [i \in 1..Len(open) |-> FeatureOptionChoice(open[i], open[i])]

\* skills that already have expertise are offered again
get_available_skill_expertisesWithExperts(sh, pending) ==
    LET open == SelectSeq(AllSkills,
                    LAMBDA s : sh.proficiencies.skills[s] >= 1 /\ s \notin pending)
    IN [i \in 1..Len(open) |-> FeatureOptionChoice(open[i], open[i])]

\* get_available_skill_expertises(sheet, pending): the skills at level 1
get_available_skill_expertises(sh, pending) ==
    LET open == SelectSeq(AllSkills,
                    LAMBDA s : sh.proficiencies.skills[s] = 1 /\ s \notin pending)
    IN [i \in 1..Len(open) |-> FeatureOptionChoice(open[i], open[i])]

AbilityOrder == <<"STR", "DEX", "CON", "INT", "WIS", "CHA">>

\* get_available_attributes(sheet, max_score, pending, compendium): the
\* ability codes whose score is below the cap
get_available_attributes(sh, max_score) ==
    SelectSeq(AbilityOrder, LAMBDA a : sh.abilities[a].score < max_score)

(***************************************************************************)
(* LevelingTab.refresh_from_sheet                                          *)
(***************************************************************************)
\* Python's order of str values, for the labels of the model
LabelOrder ==
    <<"Arcana", "Insight", "Stealth", "arcana", "insight", "stealth">>

LabelRank(l) == CHOOSE i \in 1..Len(LabelOrder) : LabelOrder[i] = l

\* list.sort(key=lambda x: x.label): stable, by insertion
RECURSIVE InsertByLabel(_, _)
InsertByLabel(sorted, opt) ==
    IF sorted = <<>> THEN <<opt>>
    ELSE IF LabelRank(sorted[Len(sorted)].label) <= LabelRank(opt.label)
         THEN Append(sorted, opt)
         ELSE Append(InsertByLabel(SubSeq(sorted, 1, Len(sorted) - 1), opt),
                     sorted[Len(sorted)])

RECURSIVE SortByLabel(_)
SortByLabel(opts) ==
    IF opts = <<>> THEN <<>>
    ELSE InsertByLabel(SortByLabel(SubSeq(opts, 1, Len(opts) - 1)),
                       opts[Len(opts)])

RECURSIVE Flatten(_)
Flatten(seqs) ==
    IF seqs = <<>> THEN <<>> ELSE Head(seqs) \o Flatten(Tail(seqs))

\* str(i) for the slot numbers
Digit(i) == CASE i = 1 -> "1" [] i = 2 -> "2" [] i = 3 -> "3" [] OTHER -> "n"

Values(opts) == {opts[i].value : i \in 1..Len(opts)}

ElementsOf(seq) == {seq[i] : i \in 1..Len(seq)}

\* _find_data_index(class_name, class_level): the position in data.classes
\* of the class_level-th entry of the class, 0 for Python's -1
_find_data_index(d, class_name, class_level) ==
    LET hits == {i \in 1..Len(d.classes) :
                    /\ d.classes[i].class_name = class_name
                    /\ Cardinality({j \in 1..i :
                           d.classes[j].class_name = class_name}) = class_level}
    IN IF hits = {} THEN 0 ELSE CHOOSE i \in hits : TRUE

\* _get_next_class_level(class_name)
_get_next_class_level(d, class_name) ==
    Cardinality({i \in 1..Len(d.classes) :
                    d.classes[i].class_name = class_name}) + 1

\* _get_features_for_level(class_record, level, subclass_name): the feature
\* names of the progression rows of that level, then those of the subclass
_get_features_for_level(found, level, subclass_name) ==
    IF found = NoRecord THEN <<>>
    ELSE LET rows == SelectSeq(found[1].progression, LAMBDA r : r.level = level)
             subs == IF Truthy(subclass_name)
                     THEN SelectSeq(found[1].subclasses,
                              LAMBDA sc : Lower(sc.name) = Lower(subclass_name))
                     ELSE <<>>
             subrows == IF subs = <<>> THEN <<>>
                        ELSE SelectSeq(subs[1].progression,
                                 LAMBDA r : r.level = level)
         IN Flatten([i \in 1..Len(rows) |-> rows[i].features])
            \o Flatten([i \in 1..Len(subrows) |-> subrows[i].features])

\* the dropdown add_dynamic_option builds: key, current value and options
DynamicOption(kind, key, current, options) ==
    [kind |-> kind, key |-> key, current |-> current, options |-> options]

\* the stored value is not put back among the options
ClassSkillSlotNoReinsert(sh, class_name, skill_list, current_choices, i) ==
    LET available_all == get_available_skill_proficiencies(sh, {})
        key == <<Lower(class_name), "skill", Digit(i)>>
        current_val == ChoiceGet(current_choices, key)
        skill_list_lower == {Lower(skill_list[k]) : k \in 1..Len(skill_list)}
        final_choices ==
            SelectSeq(available_all,
                      LAMBDA opt : Lower(opt.value) \in skill_list_lower)
    IN DynamicOption("class_skill", key, current_val, SortByLabel(final_choices))

\* refresh_from_sheet lines 216-249: the dropdown of class skill slot i
ClassSkillSlot(sh, class_name, skill_list, current_choices, i) ==
    LET available_all == get_available_skill_proficiencies(sh, {})
        available_profs == Values(available_all)
        key == <<Lower(class_name), "skill", Digit(i)>>
        current_val == ChoiceGet(current_choices, key)
        dropdown_options ==
            IF /\ Truthy(current_val)
               /\ current_val \notin available_profs
               /\ Contains(skill_list, current_val)
            THEN Append(available_all, FeatureOptionChoice(current_val, current_val))
            ELSE available_all
        skill_list_lower == {Lower(skill_list[k]) : k \in 1..Len(skill_list)}
        final_choices ==
            SelectSeq(dropdown_options,
                      LAMBDA opt : Lower(opt.value) \in skill_list_lower)
    IN DynamicOption("class_skill", key, current_val, SortByLabel(final_choices))

\* refresh_from_sheet lines 191-249: the class skill slots of an entry
ClassSkillSlots(sh, class_name, found, data_idx, current_choices) ==
    IF data_idx = 1 /\ found # NoRecord
    THEN LET profs == found[1].proficiencies
         IN IF profs.skills_choose > 0 /\ profs.skill_list # <<>>
            THEN [i \in 1..profs.skills_choose |->
                     ClassSkillSlot(sh, class_name, profs.skill_list,
                                    current_choices, i)]
            ELSE <<>>
    ELSE <<>>

\* feat_name.lower().replace(" ", "_"), as the words of the key
FeatKeyBase(feat_name) ==
    CASE feat_name = "Skilled" -> <<"skilled">>
      [] feat_name = "Sneak Attack" -> <<"sneak", "attack">>
      [] OTHER -> <<Lower(feat_name)>>

\* str.upper() over the ability codes
Upper(s) ==
    CASE s = "str" -> "STR"
      [] s = "dex" -> "DEX"
      [] s = "con" -> "CON"
      [] s = "int" -> "INT"
      [] s = "wis" -> "WIS"
      [] s = "cha" -> "CHA"
      [] OTHER -> s

\* _add_feat_options_to_entry lines 322-347: the attribute dropdown
FeatAttributeSlot(sh, feat, current_choices) ==
    LET attr_key == FeatKeyBase(feat.name) \o <<"attribute">>
        current_attr == ChoiceGet(current_choices, attr_key)
        available_attrs == get_available_attributes(sh, 20)
        names == IF \E k \in 1..Len(feat.attribute_increase) :
                        Lower(feat.attribute_increase[k]) = "any"
                 THEN available_attrs
                 ELSE SelectSeq(feat.attribute_increase,
                          LAMBDA a : Contains(available_attrs, Upper(a)))
        options == [k \in 1..Len(names) |-> FeatureOptionChoice(names[k], names[k])]
    IN IF feat.attribute_increase # <<>> /\ options # <<>>
       THEN <<DynamicOption("attribute", attr_key, current_attr, options)>>
       ELSE <<>>

\* _add_feat_options_to_entry lines 349-378: the skill proficiency dropdown
FeatSkillSlot(sh, feat, current_choices) ==
    LET skills == feat.proficiency_skills
        skill_key == FeatKeyBase(feat.name) \o <<"skill", "proficiency">>
        current_skill == ChoiceGet(current_choices, skill_key)
        available_skills == get_available_skill_proficiencies(sh, {})
        available_profs == Values(available_skills)
        dropdown_options ==
            IF /\ Truthy(current_skill)
               /\ current_skill \notin available_profs
               /\ (Contains(skills, "any") \/ Contains(skills, current_skill))
            THEN Append(available_skills,
                        FeatureOptionChoice(current_skill, current_skill))
            ELSE available_skills
        options == IF Contains(skills, "any") THEN dropdown_options
                   ELSE SelectSeq(dropdown_options,
                            LAMBDA opt : Contains(skills, opt.value))
    IN IF skills # <<>> /\ options # <<>>
       THEN <<DynamicOption("feat_skill", skill_key, current_skill, options)>>
       ELSE <<>>

\* _add_feat_options_to_entry lines 380-412: the expertise dropdown
FeatExpertiseSlot(sh, feat, current_choices) ==
    LET expert_skills == feat.expertise_skills
        expertise_key == FeatKeyBase(feat.name) \o <<"skill", "expertise">>
        current_expertise == ChoiceGet(current_choices, expertise_key)
        available_expertise == get_available_skill_expertises(sh, {})
        available_vals == Values(available_expertise)
        dropdown_options ==
            IF /\ Truthy(current_expertise)
               /\ current_expertise \notin available_vals
               /\ (Contains(expert_skills, "any")
                   \/ Contains(expert_skills, current_expertise))
            THEN Append(available_expertise,
                        FeatureOptionChoice(current_expertise, current_expertise))
            ELSE available_expertise
        options == IF Contains(expert_skills, "any") THEN dropdown_options
                   ELSE SelectSeq(dropdown_options,
                            LAMBDA o : Contains(expert_skills, o.value))
    IN IF expert_skills # <<>> /\ options # <<>>
       THEN <<DynamicOption("expertise", expertise_key, current_expertise, options)>>
       ELSE <<>>

\* _add_feat_options_to_entry: the dropdowns of one feature name
_add_feat_options_to_entry(sh, feat_name, current_choices) ==
    LET hits == SelectSeq(FeatRecords,
                    LAMBDA f : Lower(f.name) = Lower(feat_name))
    IN IF hits = <<>> THEN <<>>
       ELSE FeatAttributeSlot(sh, hits[1], current_choices)
            \o FeatSkillSlot(sh, hits[1], current_choices)
            \o FeatExpertiseSlot(sh, hits[1], current_choices)

\* _populate_feat_options
_populate_feat_options(sh, features, current_choices) ==
    Flatten([k \in 1..Len(features) |->
                _add_feat_options_to_entry(sh, features[k], current_choices)])

\* LevelingTab._selections, the fallback choices of an entry without data
LegacySelections == <<>>

\* refresh_from_sheet lines 173-254: the LevelEntry of one level of a class
LevelEntry(sh, d, class_prog, lvl) ==
    LET class_name == class_prog.name
        found == class_record(class_name)
        data_idx == _find_data_index(d, class_name, lvl)
        current_choices == IF data_idx # 0
                           THEN d.classes[data_idx].feature_choices
                           ELSE LegacySelections
        features_data == _get_features_for_level(found, lvl, class_prog.subclass)
    IN [level |-> lvl,
        class_name |-> class_name,
        data_idx |-> data_idx,
        options |-> ClassSkillSlots(sh, class_name, found, data_idx, current_choices)
                    \o _populate_feat_options(sh, features_data, current_choices)]

\* refresh_from_sheet: the timeline rebuilt from the tab's sheet and the data
refresh_from_sheet(sh, d) ==
    Flatten([c \in 1..Len(sh.identity.classes) |->
                [lvl \in 1..sh.identity.classes[c].level |->
                    LevelEntry(sh, d, sh.identity.classes[c], lvl)]])

(***************************************************************************)
(* CharacterBuilderDialog, CreationTab, LevelingTab                        *)
(***************************************************************************)
\* what the user can type or pick in the Creation tab (the species, subtype
\* and portrait handlers patch an identity field the way the name handler does)
NameTexts == {"Ann"}
BackgroundNames == {BackgroundRecords[i].name : i \in 1..Len(BackgroundRecords)}
ScoreEdits == {<<"STR", 12>>}

\* the class names ClassSelectionDialog lists
SelectableClasses == {ClassRecords[i].name : i \in 1..Len(ClassRecords)}

\* a record saved under a dataset in which Stealth was a wizard skill
ExistingWizard ==
    [DefaultData EXCEPT !.classes =
        <<[ClassLevelData("Wizard", 1) EXCEPT !.feature_choices =
              <<[key |-> <<"wizard", "skill", "1">>, value |-> "Stealth"]>>]>>]

\* record.data of the record the dialog is opened on
BuilderStartData == {DefaultData, ExistingWizard}

EngineIdle ==
    /\ data = DefaultData
    /\ sheets = <<>>
    /\ dataset = DatasetLists
    /\ sheetRefs = <<>>

\* CharacterBuilderDialog.__init__
InitBuilder ==
    /\ EngineIdle
    /\ LibraryIdle
    /\ CompendiumIdle
    /\ recData \in BuilderStartData
    /\ bData = recData
    /\ dlgSheet = hydrate(EmptySheet, bData)
    /\ tabSheet = dlgSheet
    /\ shared = TRUE
    /\ entries = refresh_from_sheet(tabSheet, bData)

\* a CreationTab handler patched the dialog's sheet to newSheet and the data
\* to newData, then emitted dataChanged: the Leveling tab refreshes from its
\* own sheet, which is the patched object only while it is shared
CreationEdit(newSheet, newData) ==
    /\ dlgSheet' = newSheet
    /\ bData' = newData
    /\ tabSheet' = IF shared THEN newSheet ELSE tabSheet
    /\ entries' = refresh_from_sheet(tabSheet', newData)
    /\ UNCHANGED <<recData, shared, engineVars, libraryVars, compendiumVars>>

\* CreationTab._on_name_changed
OnNameChanged ==
    \E text \in NameTexts :
        /\ text # dlgSheet.identity.name
        /\ CreationEdit([dlgSheet EXCEPT !.identity.name = text],
                        [bData EXCEPT !.identity.name = text])

\* CreationTab._on_background_changed
OnBackgroundChanged ==
    \E name \in BackgroundNames :
        /\ name # dlgSheet.identity.background
        /\ CreationEdit([dlgSheet EXCEPT !.identity.background = name],
                        [bData EXCEPT !.identity.background = name])

\* CreationTab._on_score_changed
OnScoreChanged ==
    \E edit \in ScoreEdits :
        /\ dlgSheet.abilities[edit[1]].score # edit[2]
        /\ CreationEdit([dlgSheet EXCEPT !.abilities[edit[1]].score = edit[2]],
                        [bData EXCEPT !.base_stats[edit[1]] = edit[2]])

\* the tail of the three LevelingTab handlers: rehydrate, then refresh
Rehydrate(newData) ==
    /\ bData' = newData
    /\ tabSheet' = hydrate(tabSheet, newData)
    /\ shared' = FALSE
    /\ entries' = refresh_from_sheet(tabSheet', newData)
    /\ UNCHANGED <<recData, dlgSheet, engineVars, libraryVars, compendiumVars>>

\* LevelingTab._on_add_level_clicked
OnAddLevelClicked ==
    \E selected_class \in SelectableClasses :
        /\ Len(bData.classes) < MaxBuilderEntries
        /\ Rehydrate([bData EXCEPT !.classes =
               Append(@, ClassLevelData(selected_class,
                             _get_next_class_level(bData, selected_class)))])

\* list.pop(i)
Pop(seq, i) == SubSeq(seq, 1, i - 1) \o SubSeq(seq, i + 1, Len(seq))

\* LevelingTab._on_remove_entry_clicked
OnRemoveEntryClicked ==
    \E e \in 1..Len(entries) :
        LET data_idx == _find_data_index(bData, entries[e].class_name,
                                         entries[e].level)
        IN /\ data_idx # 0
           /\ Rehydrate([bData EXCEPT !.classes = Pop(@, data_idx)])

\* feature_choices[key] = value
ChoiceSet(choices, key, value) ==
    IF \E i \in 1..Len(choices) : choices[i].key = key
    THEN [i \in 1..Len(choices) |->
             IF choices[i].key = key THEN [key |-> key, value |-> value]
             ELSE choices[i]]
    ELSE Append(choices, [key |-> key, value |-> value])

\* del feature_choices[key], when the key is there
ChoiceDel(choices, key) == SelectSeq(choices, LAMBDA c : c.key # key)

\* LevelingTab._on_feature_changed(index, key, value), fired by the dropdown
\* o of entry e when the user picks another item
OnFeatureChanged ==
    \E e \in 1..Len(entries) : \E o \in 1..Len(entries[e].options) :
        \E value \in Values(entries[e].options[o].options) \cup {""} :
            LET index == entries[e].data_idx
                key == entries[e].options[o].key
                shown == IF entries[e].options[o].current
                            \in Values(entries[e].options[o].options)
                         THEN entries[e].options[o].current ELSE ""
            IN /\ value # shown
               /\ index >= 1 /\ index <= Len(bData.classes)
               /\ Rehydrate([bData EXCEPT !.classes[index].feature_choices =
                      IF Truthy(value) THEN ChoiceSet(@, key, value)
                      ELSE ChoiceDel(@, key)])

NextBuilder ==
    \/ OnNameChanged
    \/ OnBackgroundChanged
    \/ OnScoreChanged
    \/ OnAddLevelClicked
    \/ OnRemoveEntryClicked
    \/ OnFeatureChanged

SpecBuilder == InitBuilder /\ [][NextBuilder]_vars

(***************************************************************************)
(* Feature-choice edits on a record whose primary class level has no skill *)
(* chosen yet                                                              *)
(***************************************************************************)
\* the levels that may follow the primary class level in the record, as
\* _on_add_level_clicked numbers them
FollowingLevels(first) ==
    LET other == IF first = "Rogue" THEN "Wizard" ELSE "Rogue"
    IN {<<>>,
        <<ClassLevelData(first, 2)>>,
        <<ClassLevelData(other, 1)>>,
        <<ClassLevelData(first, 2), ClassLevelData(other, 1)>>,
        <<ClassLevelData(other, 1), ClassLevelData(first, 2)>>,
        <<ClassLevelData(other, 1), ClassLevelData(other, 2)>>}

\* records whose first entry is a class level with every skill slot empty
SlotStartData ==
    UNION {{[DefaultData EXCEPT !.identity.background = b,
                                !.classes = <<ClassLevelData(first, 1)>> \o rest] :
               b \in {"", "Criminal"}, rest \in FollowingLevels(first)} :
           first \in SelectableClasses}

\* CharacterBuilderDialog.__init__ on such a record
InitSlots ==
    /\ EngineIdle
    /\ LibraryIdle
    /\ CompendiumIdle
    /\ recData \in SlotStartData
    /\ bData = recData
    /\ dlgSheet = hydrate(EmptySheet, bData)
    /\ tabSheet = dlgSheet
    /\ shared = TRUE
    /\ entries = refresh_from_sheet(tabSheet, bData)

NextSlots == OnFeatureChanged

SpecSlots == InitSlots /\ [][NextSlots]_vars

\* CharacterBuilderDialog.get_result()
get_result == [sheet |-> dlgSheet, data |-> bData]

(***************************************************************************)
(* CharacterLibrary and its storage directory                              *)
(***************************************************************************)
\* the library is exercised with at most this many records
MaxRecords == 2

\* uuid4 values
Uuids == {"u1", "u2", "u3"}

\* the Decision Records the editors hand to the library
LibraryData ==
    {[DefaultData EXCEPT
        !.id = "d1",
        !.identity.name = "Ann",
        !.identity.background = "Criminal",
        !.classes = <<[ClassLevelData("Rogue", 1) EXCEPT !.feature_choices =
                          <<[key |-> <<"rogue", "skill", "1">>,
                             value |-> "Insight"]>>]>>],
     [DefaultData EXCEPT !.id = "d2"]}

\* Optional[CharacterData]: None, or one Decision Record
OptionalData == {<<>>} \cup {<<d>> : d \in LibraryData}

\* the sheets the callers pass along
LibrarySheets == {EmptySheet} \cup {hydrate(EmptySheet, d) : d \in LibraryData}

\* modifier states, as the set of the modifiers switched on
ModifierSets == {{}, {"rage"}}

\* CharacterRecord(identifier, sheet, modifiers, data)
CharacterRecord(identifier, sh, modifiers, d) ==
    [identifier |-> identifier, sheet |-> sh, modifiers |-> modifiers, data |-> d]

\* dataclasses.asdict(data): the tree of the record's fields
asdict(d) ==
    [version |-> d.version,
     id |-> d.id,
     identity |-> d.identity,
     base_stats |-> d.base_stats,
     classes |-> [i \in 1..Len(d.classes) |->
                     [class_name |-> d.classes[i].class_name,
                      level |-> d.classes[i].level,
                      subclass |-> d.classes[i].subclass,
                      feature_choices |-> d.classes[i].feature_choices]],
     background_choices |-> d.background_choices,
     equipment |-> d.equipment,
     notes |-> d.notes]

\* tree.get(field, default)
Get(tree, field, default) ==
    IF field \in DOMAIN tree THEN tree[field] ELSE default

\* IdentityData.from_dict: the known fields of the tree, defaults for the rest
IdentityFromDict(tree) ==
    [f \in DOMAIN DefaultIdentity |-> Get(tree, f, DefaultIdentity[f])]

\* ClassLevelData.from_dict
ClassLevelFromDict(tree) ==
    [class_name |-> Get(tree, "class_name", ""),
     level |-> Get(tree, "level", 1),
     subclass |-> Get(tree, "subclass", None),
     feature_choices |-> Get(tree, "feature_choices", <<>>)]

\* the stored id is ignored and a new uuid is drawn on every read
from_dictFreshId(tree, fresh) ==
    LET classes == Get(tree, "classes", <<>>)
    IN [version |-> Get(tree, "version", "1.0"),
        id |-> fresh,
        identity |-> IdentityFromDict(Get(tree, "identity", <<>>)),
        base_stats |-> Get(tree, "base_stats", DefaultBaseStats),
        classes |-> [i \in 1..Len(classes) |-> ClassLevelFromDict(classes[i])],
        background_choices |-> Get(tree, "background_choices", <<>>),
        equipment |-> Get(tree, "equipment", <<>>),
        notes |-> Get(tree, "notes", <<>>)]

\* CharacterData.from_dict; fresh is the uuid drawn when the tree has no id
from_dict(tree, fresh) ==
    LET classes == Get(tree, "classes", <<>>)
    IN [version |-> Get(tree, "version", "1.0"),
        id |-> Get(tree, "id", fresh),
        identity |-> IdentityFromDict(Get(tree, "identity", <<>>)),
        base_stats |-> Get(tree, "base_stats", DefaultBaseStats),
        classes |-> [i \in 1..Len(classes) |-> ClassLevelFromDict(classes[i])],
        background_choices |-> Get(tree, "background_choices", <<>>),
        equipment |-> Get(tree, "equipment", <<>>),
        notes |-> Get(tree, "notes", <<>>)]

\* the data key is written for every record that holds a Decision Record
HasData(record) == record.data # <<>>

\* _serialise_record(record): id, modifiers, and data when the record has it
_serialise_record(record) ==
    [id |-> record.identifier,
     modifiers |-> record.modifiers,
     data |-> IF HasData(record) THEN <<asdict(record.data[1])>> ELSE <<>>]

\* the id of a CharacterData() made while loading
FreshDataId == "fresh"

\* A JSON object is the record of its members. A JSON value that is not an
\* object where the code reads one is written [scalar |-> v] (v a string, or
\* None for null); a member holding a string where the schema has an
\* object or an array is written under the member's name followed by _str.
IsScalar(tree) == "scalar" \in DOMAIN tree

\* not data_payload: the key is absent, or its value is null or ""
NoDataPayload(payload) ==
    \/ payload.data = <<>>
    \/ /\ IsScalar(payload.data[1])
       /\ ~Truthy(payload.data[1].scalar)

\* only a payload that is not an object makes from_dict raise
FromDictRaisesOnlyForScalar(tree) == IsScalar(tree)

\* CharacterData.from_dict(tree) raises: tree.get on a string (line 83),
\* .items() on an identity that is no object (line 28), or .get on a class
\* entry that is no object (lines 44, 86-87)
FromDictRaises(tree) ==
    \/ IsScalar(tree)
    \/ "identity_str" \in DOMAIN tree
    \/ "classes_str" \in DOMAIN tree /\ tree.classes_str # ""
    \/ /\ "classes" \in DOMAIN tree
       /\ \E i \in 1..Len(tree.classes) : IsScalar(tree.classes[i])

\* engine.hydrate(d) raises: class_name.lower() on a null class name
HydrateRaises(d) ==
    \E i \in 1..Len(d.classes) : d.classes[i].class_name = None

\* _deserialise_record(payload)
_deserialise_record(payload) ==
    LET d == IF NoDataPayload(payload)
             THEN [DefaultData EXCEPT !.id = FreshDataId]
             ELSE IF FromDictRaises(payload.data[1])
             THEN [DefaultData EXCEPT !.id = FreshDataId]
             ELSE from_dict(payload.data[1], FreshDataId)
        sh == IF HydrateRaises(d) THEN EmptySheet ELSE hydrate(EmptySheet, d)
    IN CharacterRecord(payload.id, sh, payload.modifiers, <<d>>)

\* a character file whose name is not a uuid
CopyName == "u1 - Copy"

\* CharacterLibrary.save(): one file per record, named by its identifier;
\* the files named by the uuid of no record are unlinked, the files whose
\* name is not a uuid are left alone
SavedFiles(fs, recs) ==
    [name \in DOMAIN recs \cup (DOMAIN fs \ Uuids) |->
        IF name \in DOMAIN recs THEN _serialise_record(recs[name]) ELSE fs[name]]

SavedMeta(act, ord) == [active_id |-> act, order |-> ord]

\* CharacterLibrary.__init__: the active id given, or the first of the order
InitialActive(recs, ord, act) ==
    IF act \in DOMAIN recs THEN act
    ELSE IF ord # <<>> THEN ord[1] ELSE None

\* {r.identifier: r for r in records}, and the dict __init__ fills: the last
\* record of an identifier is the one kept
RecordMap(list) ==
    [id \in {list[i].identifier : i \in 1..Len(list)} |->
        list[CHOOSE i \in 1..Len(list) :
                /\ list[i].identifier = id
                /\ \A j \in (i + 1)..Len(list) : list[j].identifier # id]]

\* the identifier of every record of the list is appended to the order,
\* repeated or not
OrderOf(list) == [i \in 1..Len(list) |-> list[i].identifier]

\* CharacterLibrary.__init__(records, active_id=act) lines 106-112, the
\* body replace_all repeats at lines 273-280
NewLibrary(list, act) ==
    [records |-> RecordMap(list),
     order |-> OrderOf(list),
     active_id |-> InitialActive(RecordMap(list), OrderOf(list), act)]

\* CharacterLibrary.load(path) lines 152-161: the records of the files, in
\* the order rest in which glob lists them
LoadedRecords(fs, rest) ==
    [i \in 1..Len(rest) |-> _deserialise_record(fs[rest[i]])]

\* CharacterLibrary.load(path) lines 163-174: the records the meta order
\* names, in that order, then the records it does not name
ReorderedRecords(list, m) ==
    IF m.order # <<>>
    THEN LET record_map == RecordMap(list)
             named == SelectSeq(m.order, LAMBDA uid : uid \in DOMAIN record_map)
         IN [i \in 1..Len(named) |-> record_map[named[i]]]
            \o SelectSeq(list, LAMBDA r : ~Contains(m.order, r.identifier))
    ELSE list

\* the orders in which glob may list the files
Listings(fs) ==
    {s \in [1..Cardinality(DOMAIN fs) -> DOMAIN fs] :
        \A i, j \in DOMAIN s : i # j => s[i] # s[j]}

\* str(uuid.uuid4()): an identifier the library has not met
FreshUuids ==
    Uuids \ (DOMAIN records \cup {order[i] : i \in 1..Len(order)} \cup DOMAIN files)

\* CharacterLibrary.create_record(sheet, modifiers, data), the arguments
\* drawn from the given sets
CreateRecordFrom(sheetArgs, modifierArgs, dataArgs) ==
    \E identifier \in FreshUuids :
    \E sh \in sheetArgs, modifiers \in modifierArgs, d \in dataArgs :
        /\ Cardinality(DOMAIN records) < MaxRecords
        /\ records' = [id \in DOMAIN records \cup {identifier} |->
                          IF id = identifier
                          THEN CharacterRecord(identifier, sh, modifiers, d)
                          ELSE records[id]]
        /\ order' = Append(order, identifier)
        /\ active_id' = IF ~Truthy(active_id) THEN identifier ELSE active_id
        /\ files' = SavedFiles(files, records')
        /\ meta' = SavedMeta(active_id', order')

CreateRecord == CreateRecordFrom(LibrarySheets, ModifierSets, OptionalData)

\* CharacterLibrary.update_record(identifier, sheet, modifiers, data=None),
\* the arguments drawn from the given sets
UpdateRecordFrom(sheetArgs, modifierArgs, dataArgs) ==
    \E identifier \in DOMAIN records :
    \E sh \in sheetArgs, modifiers \in modifierArgs, d \in dataArgs :
        /\ records' = [records EXCEPT ![identifier] =
                          CharacterRecord(identifier, sh, modifiers, d)]
        /\ files' = SavedFiles(files, records')
        /\ meta' = SavedMeta(active_id, order)
        /\ UNCHANGED <<order, active_id>>

UpdateRecord == UpdateRecordFrom(LibrarySheets, ModifierSets, OptionalData)

\* list.remove(x): the first occurrence is taken out
Remove(seq, x) ==
    LET i == CHOOSE k \in 1..Len(seq) :
                 seq[k] = x /\ \A j \in 1..(k - 1) : seq[j] # x
    IN SubSeq(seq, 1, i - 1) \o SubSeq(seq, i + 1, Len(seq))

\* CharacterLibrary.delete_record(identifier); an identifier the library
\* does not hold returns before anything is written
DeleteRecord ==
    \E identifier \in Uuids :
        IF identifier \notin DOMAIN records
        THEN UNCHANGED libraryVars
        ELSE /\ records' = [id \in DOMAIN records \ {identifier} |-> records[id]]
             /\ order' = IF Contains(order, identifier)
                          THEN Remove(order, identifier) ELSE order
             /\ active_id' = IF active_id = identifier
                              THEN (IF order' # <<>> THEN order'[1] ELSE None)
                              ELSE active_id
             /\ files' = SavedFiles(files, records')
             /\ meta' = SavedMeta(active_id', order')

\* CharacterLibrary.set_active(identifier); nothing is saved
SetActive ==
    \E identifier \in Uuids \cup {None} :
        /\ active_id' = IF Truthy(identifier) /\ identifier \in DOMAIN records
                         THEN identifier
                         ELSE IF order = <<>> THEN None
                         ELSE order[1]
        /\ UNCHANGED <<records, order, files, meta>>

\* CharacterLibrary.ensure_active(); nothing is saved
EnsureActive ==
    /\ active_id' = IF Truthy(active_id) /\ active_id \in DOMAIN records
                     THEN active_id
                     ELSE IF order # <<>> THEN order[1]
                     ELSE active_id
    /\ UNCHANGED <<records, order, files, meta>>

\* the records a caller hands to replace_all
ReplacementRecords ==
    {CharacterRecord(identifier, EmptySheet, {}, <<>>) : identifier \in Uuids}

\* CharacterLibrary.replace_all(records, active_id=act)
ReplaceAll ==
    \E list \in SeqsUpTo(ReplacementRecords, MaxRecords) :
    \E act \in Uuids \cup {None} :
    \E next \in {NewLibrary(list, act)} :
        /\ records' = next.records
        /\ order' = next.order
        /\ active_id' = next.active_id
        /\ files' = SavedFiles(files, records')
        /\ meta' = SavedMeta(active_id', order')

\* the library CharacterLibrary.load builds from the storage directory when
\* glob lists the files in the order rest
LoadedLibrary(rest) ==
    NewLibrary(ReorderedRecords(LoadedRecords(files, rest), meta), meta.active_id)

\* CharacterLibrary.load(path): the library is rebuilt from the directory
Load ==
    \E rest \in Listings(files) :
        /\ records' = LoadedLibrary(rest).records
        /\ order' = LoadedLibrary(rest).order
        /\ active_id' = LoadedLibrary(rest).active_id
        /\ UNCHANGED <<files, meta>>

\* CharacterLibrary.load on a directory that does not exist yet
InitLibrary ==
    /\ EngineIdle
    /\ BuilderIdle
    /\ CompendiumIdle
    /\ records = <<>>
    /\ order = <<>>
    /\ active_id = None
    /\ files = <<>>
    /\ meta = SavedMeta(None, <<>>)

NextLibrary ==
    \/ (CreateRecord /\ UNCHANGED <<engineVars, builderVars, compendiumVars>>)
    \/ (UpdateRecord /\ UNCHANGED <<engineVars, builderVars, compendiumVars>>)
    \/ (Load /\ UNCHANGED <<engineVars, builderVars, compendiumVars>>)

SpecLibrary == InitLibrary /\ [][NextLibrary]_vars

(***************************************************************************)
(* The registry of the library: which records it holds, in which order,    *)
(* and which one is active                                                 *)
(***************************************************************************)
\* a directory holding the file save() wrote for a record, a copy of that
\* file under another name, and no _meta.json
CopiedFile ==
    LET payload == _serialise_record(CharacterRecord("u1", EmptySheet, {}, <<>>))
    IN [name \in {"u1", CopyName} |-> payload]

\* the storage directories a library is opened on: one that does not exist
\* yet, and one with a copied file
StorageDirectories == {<<>>, CopiedFile}

\* CharacterLibrary(storage_path=...) before load; without a _meta.json
\* load reads no active id and no order
InitRegistry ==
    /\ EngineIdle
    /\ BuilderIdle
    /\ CompendiumIdle
    /\ records = <<>>
    /\ order = <<>>
    /\ active_id = None
    /\ files \in StorageDirectories
    /\ meta = SavedMeta(None, <<>>)

\* create_record() with its defaults, update_record switching a modifier on
NextRegistry ==
    \/ (CreateRecordFrom({EmptySheet}, {{}}, {<<>>})
            /\ UNCHANGED <<engineVars, builderVars, compendiumVars>>)
    \/ (UpdateRecordFrom({EmptySheet}, {{"rage"}}, {<<>>})
            /\ UNCHANGED <<engineVars, builderVars, compendiumVars>>)
    \/ (DeleteRecord /\ UNCHANGED <<engineVars, builderVars, compendiumVars>>)
    \/ (SetActive /\ UNCHANGED <<engineVars, builderVars, compendiumVars>>)
    \/ (EnsureActive /\ UNCHANGED <<engineVars, builderVars, compendiumVars>>)
    \/ (ReplaceAll /\ UNCHANGED <<engineVars, builderVars, compendiumVars>>)
    \/ (Load /\ UNCHANGED <<engineVars, builderVars, compendiumVars>>)

SpecRegistry == InitRegistry /\ [][NextRegistry]_vars

(***************************************************************************)
(* A library opened on a storage directory written earlier                 *)
(***************************************************************************)
\* the members CharacterData.from_dict reads
CharacterFields == DOMAIN DefaultData

\* tree without the members of gone
Without(tree, gone) == [f \in DOMAIN tree \ gone |-> tree[f]]

\* the members a stored tree may lack (version stays, so that the tree is
\* never the empty object)
DroppableFields == {"id", "identity", "base_stats", "classes", "equipment"}

\* the trees save() wrote for the Decision Records, and those trees with
\* members missing
PartialTrees ==
    {Without(asdict(d), gone) : d \in LibraryData, gone \in SUBSET DroppableFields}

\* trees with members the schema does not know, at the top, in the
\* identity and in a class entry, and with known members missing there
ExtendedTrees ==
    {[version |-> d.version, id |-> d.id, identity |-> i, base_stats |-> d.base_stats,
      classes |-> c, background_choices |-> <<>>, equipment |-> <<>>,
      notes |-> <<>>, legacy_sheet |-> "x"] :
        d \in LibraryData,
        i \in {[name |-> "Ann", xp |-> 300, pronouns |-> "she"],
               [name |-> "Bob", background |-> "Criminal"]},
        c \in {<<>>,
               <<[class_name |-> "Rogue", hit_die |-> 8]>>,
               <<[level |-> 2, subclass |-> "Thief"]>>,
               <<[class_name |-> None, level |-> 1]>>}}

\* trees CharacterData.from_dict cannot parse
UnparseableTrees ==
    {[scalar |-> "garbage"]}
    \cup {[version |-> "1.0", id |-> "d1", identity_str |-> v,
           classes |-> <<[class_name |-> "Rogue", level |-> 1]>>] : v \in {"", "Ann"}}
    \cup {[version |-> "1.0", id |-> "d1", identity |-> [name |-> "Ann"],
           classes_str |-> "Rogue"]}
    \cup {[version |-> "1.0", id |-> "d1", identity |-> [name |-> "Ann"],
           classes |-> <<[scalar |-> "Rogue"]>>]}

\* the data member of a stored payload
StoredData ==
    {<<>>, <<[scalar |-> None]>>, <<[scalar |-> ""]>>}
    \cup {<<t>> : t \in PartialTrees \cup ExtendedTrees \cup UnparseableTrees}

\* the payloads found in the file u1.json
StoredPayloads ==
    {[id |-> "u1", modifiers |-> m, data |-> d] :
        m \in ModifierSets, d \in StoredData}

\* the directory holds one character file and its _meta.json
InitStorage ==
    /\ EngineIdle
    /\ BuilderIdle
    /\ CompendiumIdle
    /\ records = <<>>
    /\ order = <<>>
    /\ active_id = None
    /\ files \in {[id \in {"u1"} |-> payload] : payload \in StoredPayloads}
    /\ meta = SavedMeta("u1", <<"u1">>)

NextStorage == Load /\ UNCHANGED <<engineVars, builderVars, compendiumVars>>

SpecStorage == InitStorage /\ [][NextStorage]_vars

(***************************************************************************)
(* Compendium.load and _COMPENDIUM_CACHE                                   *)
(***************************************************************************)
\* the calls made to the compendium in one run
MaxCompendiumCalls == 4

\* the ruleset directories under the data root; dnd_2024 is
\* DEFAULT_COMPENDIUM_PATH
RulesetDirs == {"dnd_2024", "homebrew"}

DefaultRuleset == "dnd_2024"

\* full paths that exist outside the data root (legacy callers pass them)
OtherPaths == {"/opt/rules"}

\* the ruleset argument of load: None, a ruleset name, a full path
RulesetArgs == {None, "homebrew", "missing", "/opt/rules"}

\* content modules
ModuleSets == {{}, {"m1"}}

\* the modules argument of load: None, or an iterable of module names
ModulesArgs == {<<>>} \cup {<<m>> : m \in ModuleSets}

\* lines 72-82: the directory load reads
Target(ruleset) ==
    LET target_ruleset == IF Truthy(ruleset) THEN ruleset ELSE settings.ruleset
    IN IF target_ruleset \in RulesetDirs THEN target_ruleset
       ELSE IF Truthy(ruleset) /\ ruleset \in OtherPaths THEN ruleset
       ELSE DefaultRuleset

\* line 90: set(modules) if modules is not None else settings.active_modules
ActiveModules(modules) ==
    IF modules # <<>> THEN modules[1] ELSE settings.active_modules

\* lines 93-94: (str(target), frozenset(active_modules))
CacheKey(ruleset, modules) == <<Target(ruleset), ActiveModules(modules)>>

\* the instance is returned and not kept
CacheStoreNothing(c, key, instance) == c

\* line 101: _COMPENDIUM_CACHE[cache_key] = instance
CacheStore(c, key, instance) ==
    [k \in DOMAIN c \cup {key} |-> IF k = key THEN instance ELSE c[k]]

\* Compendium.load(ruleset, modules)
CompendiumLoad ==
    \E ruleset \in RulesetArgs, modules \in ModulesArgs :
        LET key == CacheKey(ruleset, modules)
        IN /\ Len(calls) < MaxCompendiumCalls
           /\ IF key \in DOMAIN cache
              THEN /\ calls' = Append(calls, [op |-> "load", target |-> Target(ruleset),
                                              modules |-> ActiveModules(modules),
                                              instance |-> cache[key], read |-> FALSE])
                   /\ UNCHANGED <<cache, created>>
              ELSE /\ created' = created + 1
                   /\ cache' = CacheStore(cache, key, created')
                   /\ calls' = Append(calls, [op |-> "load", target |-> Target(ruleset),
                                              modules |-> ActiveModules(modules),
                                              instance |-> created', read |-> TRUE])
           /\ UNCHANGED settings

\* clear_compendium_cache()
ClearCompendiumCache ==
    /\ Len(calls) < MaxCompendiumCalls
    /\ cache' = <<>>
    /\ calls' = Append(calls, [op |-> "clear", target |-> "", modules |-> {},
                               instance |-> 0, read |-> FALSE])
    /\ UNCHANGED <<settings, created>>

\* the user changes the ruleset or the active modules in the settings
ChangeSettings ==
    /\ Len(calls) < MaxCompendiumCalls
    /\ \E r \in RulesetDirs \cup {"missing"}, m \in ModuleSets :
          /\ [ruleset |-> r, active_modules |-> m] # settings
          /\ settings' = [ruleset |-> r, active_modules |-> m]
    /\ UNCHANGED <<cache, created, calls>>

\* the process starts with an empty cache
InitCompendium ==
    /\ EngineIdle
    /\ BuilderIdle
    /\ LibraryIdle
    /\ settings = [ruleset |-> DefaultRuleset, active_modules |-> {}]
    /\ cache = <<>>
    /\ created = 0
    /\ calls = <<>>

NextCompendium ==
    \/ (CompendiumLoad /\ UNCHANGED <<engineVars, builderVars, libraryVars>>)
    \/ (ClearCompendiumCache /\ UNCHANGED <<engineVars, builderVars, libraryVars>>)
    \/ (ChangeSettings /\ UNCHANGED <<engineVars, builderVars, libraryVars>>)

SpecCompendium == InitCompendium /\ [][NextCompendium]_vars

(***************************************************************************)
(* Properties of the engine                                                *)
(***************************************************************************)
\* the dataset's records of a class key, read off the payload
RecordsOfClass(name) ==
    {r \in 1..Len(ClassRecords) : Key(ClassRecords[r].name) = Key(Lower(name))}

UnknownClass(name) == RecordsOfClass(name) = {}

IsPrefix(p, q) == Len(p) <= Len(q) /\ SubSeq(q, 1, Len(p)) = p

\* the sheet of one hydration after the first n - 1 entries of data.classes
\* and the first m feature choices of entry n (n = 0: before the loop)
SheetAt(n, m) ==
    IF n = 0 THEN BeforeClasses(EmptySheet, data)
    ELSE ApplyEntryUpTo(
            ApplyClassesUpTo(BeforeClasses(EmptySheet, data), data.classes, n - 1),
            data.classes[n], m)

\* the sheet of one hydration after the first n entries of data.classes
SheetAfterEntry(n) ==
    IF n = 0 THEN SheetAt(0, 0)
    ELSE SheetAt(n, Len(data.classes[n].feature_choices))

\* the positions (entry, choice) of the feature choices of data, and their
\* processing order
ChoicePositions ==
    {<<n, m>> \in (1..Len(data.classes)) \X (1..MaxChoices + 1) :
        m <= Len(data.classes[n].feature_choices)}

Later(p, q) == q[1] > p[1] \/ (q[1] = p[1] /\ q[2] > p[2])

ChoiceAt(p) == data.classes[p[1]].feature_choices[p[2]]

SkillCount(sh) == Cardinality({s \in SkillNames : sh.proficiencies.skills[s] > 0})

\* C1: every hydrate call on the same Decision Record and rule dataset
\* returns a sheet structurally equal to the one every other call returned.
C1_Determinism ==
    \A i, j \in 1..Len(sheets) : sheets[i] = sheets[j]

C1_Witness ==
    /\ Len(sheets) >= 2
    /\ Len(data.classes) >= 2
    /\ sheets[2].proficiencies.armor # <<>>
    /\ \E s \in SkillNames : sheets[2].proficiencies.skills[s] = 2

\* C3: the skill map and the armor, weapon and tool lists of every later
\* hydration of the same Decision Record have the length and the contents
\* they had after the first hydration: nothing accumulates between calls.
C3_NoAccumulation ==
    \A i \in 1..Len(sheets) :
        /\ SkillCount(sheets[i]) = SkillCount(sheets[1])
        /\ sheets[i].proficiencies.skills = sheets[1].proficiencies.skills
        /\ Len(sheets[i].proficiencies.armor) = Len(sheets[1].proficiencies.armor)
        /\ sheets[i].proficiencies.armor = sheets[1].proficiencies.armor
        /\ Len(sheets[i].proficiencies.weapons) = Len(sheets[1].proficiencies.weapons)
        /\ sheets[i].proficiencies.weapons = sheets[1].proficiencies.weapons
        /\ Len(sheets[i].proficiencies.tools) = Len(sheets[1].proficiencies.tools)
        /\ sheets[i].proficiencies.tools = sheets[1].proficiencies.tools

C3_Witness ==
    /\ Len(sheets) >= 2
    /\ sheets[2].proficiencies.tools # <<>>
    /\ sheets[2].proficiencies.weapons # <<>>
    /\ SkillCount(sheets[2]) >= 1

\* C4: when data.classes is not empty, the class of its first entry gets the
\* primary grants of its class record: the record's armor and weapons are the
\* first entries of the sheet's armor and weapon lists and every saving throw
\* the record lists is flagged, whatever the levels and the order of the
\* entries that follow.
C4_PrimacyStability ==
    \A i \in 1..Len(sheets) :
        data.classes # <<>> =>
            \A r \in RecordsOfClass(data.classes[1].class_name) :
                /\ IsPrefix(ClassRecords[r].proficiencies.armor,
                            sheets[i].proficiencies.armor)
                /\ IsPrefix(ClassRecords[r].proficiencies.weapons,
                            sheets[i].proficiencies.weapons)
                /\ \A k \in 1..Len(ClassRecords[r].saves) :
                       sheets[i].abilities[ClassRecords[r].saves[k]].save_proficient

\* rogue added first and left at level 1, wizard interleaved and ending higher
C4_Witness ==
    /\ sheets # <<>>
    /\ Len(data.classes) = 4
    /\ data.classes[1].class_name = "rogue" /\ data.classes[1].level = 1
    /\ data.classes[2].class_name = "wizard"
    /\ data.classes[3].class_name = "rogue" /\ data.classes[3].level = 1
    /\ data.classes[4].class_name = "wizard" /\ data.classes[4].level = 3
    /\ sheets[1].identity.classes =
           <<[name |-> "rogue", level |-> 1, subclass |-> None],
             [name |-> "wizard", level |-> 3, subclass |-> None]>>
    /\ sheets[1].abilities["DEX"].save_proficient

\* the class keys of data.classes
DataClassNames == {data.classes[n].class_name : n \in 1..Len(data.classes)}

FirstEntryOf(name) ==
    CHOOSE n \in 1..Len(data.classes) :
        /\ data.classes[n].class_name = name
        /\ \A k \in 1..(n - 1) : data.classes[k].class_name # name

LevelExample ==
    <<ClassLevelData("rogue", 1), ClassLevelData("rogue", 2),
      ClassLevelData("wizard", 1), ClassLevelData("rogue", 3)>>

\* C5: the consolidated class list has one entry per distinct class key of
\* data.classes, in order of first appearance, each with the largest level
\* field among the entries of its class; the rogue 1, rogue 2, wizard 1,
\* rogue 3 record gives rogue 3 then wizard 1, rogue holding the primary
\* grants.
C5_LevelConsolidation ==
    \A i \in 1..Len(sheets) :
        LET cl == sheets[i].identity.classes
        IN /\ {cl[k].name : k \in 1..Len(cl)} = DataClassNames
           /\ Len(cl) = Cardinality(DataClassNames)
           /\ \A k, l \in 1..Len(cl) :
                  k < l => FirstEntryOf(cl[k].name) < FirstEntryOf(cl[l].name)
           /\ \A k \in 1..Len(cl) :
                  /\ \E n \in 1..Len(data.classes) :
                        /\ data.classes[n].class_name = cl[k].name
                        /\ data.classes[n].level = cl[k].level
                  /\ \A n \in 1..Len(data.classes) :
                        data.classes[n].class_name = cl[k].name
                            => data.classes[n].level <= cl[k].level
           /\ data.classes = LevelExample =>
                  /\ cl = <<[name |-> "rogue", level |-> 3, subclass |-> None],
                            [name |-> "wizard", level |-> 1, subclass |-> None]>>
                  /\ sheets[i].proficiencies.armor = <<"Light">>
                  /\ sheets[i].proficiencies.weapons = <<"Simple", "Finesse">>
                  /\ sheets[i].abilities["DEX"].save_proficient
                  /\ ~sheets[i].abilities["WIS"].save_proficient

C5_Witness ==
    /\ sheets # <<>>
    /\ data.classes = LevelExample
    /\ sheets[1].identity.classes[1].level = 3

\* C6: within one hydration, a skill that a feature choice has put at level 2
\* stays at level 2 after every feature choice processed later whose key
\* holds _skill_ and not _expertise, and is at level 2 in the returned sheet.
C6_ExpertiseMonotonic ==
    \A p \in ChoicePositions : \A s \in SkillNames :
        (/\ HasSkillMarker(ChoiceAt(p).key)
         /\ ChoiceAt(p).value = s
         /\ SheetAt(p[1], p[2]).proficiencies.skills[s] = 2)
        => /\ \A q \in ChoicePositions :
                  (Later(p, q) /\ HasSkillMarker(ChoiceAt(q).key)
                               /\ ~HasExpertiseMarker(ChoiceAt(q).key))
                  => SheetAt(q[1], q[2]).proficiencies.skills[s] = 2
           /\ \A i \in 1..Len(sheets) : sheets[i].proficiencies.skills[s] = 2

\* an expertise choice for Stealth, then a plain proficiency choice for it
C6_Witness ==
    /\ sheets # <<>>
    /\ \E p, q \in ChoicePositions :
          /\ Later(p, q)
          /\ HasSkillMarker(ChoiceAt(p).key) /\ HasExpertiseMarker(ChoiceAt(p).key)
          /\ HasSkillMarker(ChoiceAt(q).key) /\ ~HasExpertiseMarker(ChoiceAt(q).key)
          /\ ChoiceAt(p).value = "Stealth" /\ ChoiceAt(q).value = "Stealth"
    /\ sheets[1].proficiencies.skills["Stealth"] = 2

SaveFlags(sh) == [a \in Abilities |-> sh.abilities[a].save_proficient]

\* C10: a class key the rule dataset does not hold does not stop hydration:
\* every call returns a sheet, the class is in the consolidated list with
\* its level, and the entries of the class add no armor, no weapon and no
\* save-proficiency flag.
C10_UnknownClassNoOp ==
    \A n \in 1..Len(data.classes) :
        UnknownClass(data.classes[n].class_name) =>
            /\ SheetAfterEntry(n).proficiencies.armor =
                   SheetAfterEntry(n - 1).proficiencies.armor
            /\ SheetAfterEntry(n).proficiencies.weapons =
                   SheetAfterEntry(n - 1).proficiencies.weapons
            /\ SaveFlags(SheetAfterEntry(n)) = SaveFlags(SheetAfterEntry(n - 1))
            /\ \A i \in 1..Len(sheets) :
                   \E k \in 1..Len(sheets[i].identity.classes) :
                       /\ sheets[i].identity.classes[k].name =
                              data.classes[n].class_name
                       /\ sheets[i].identity.classes[k].level >=
                              data.classes[n].level
                       /\ \E e \in 1..Len(data.classes) :
                              /\ data.classes[e].class_name =
                                     data.classes[n].class_name
                              /\ data.classes[e].level =
                                     sheets[i].identity.classes[k].level
            /\ (\A e \in 1..Len(data.classes) :
                    UnknownClass(data.classes[e].class_name))
               => \A i \in 1..Len(sheets) :
                      /\ sheets[i].proficiencies.armor = <<>>
                      /\ sheets[i].proficiencies.weapons = <<>>
                      /\ \A a \in Abilities : ~sheets[i].abilities[a].save_proficient

\* bard, unknown to the dataset, first and at level 2; rogue after it
C10_Witness ==
    /\ sheets # <<>>
    /\ Len(data.classes) = 3
    /\ data.classes[1].class_name = "bard"
    /\ data.classes[2].class_name = "rogue"
    /\ data.classes[3].class_name = "bard" /\ data.classes[3].level = 2
    /\ sheets[1].identity.classes[1] =
           [name |-> "bard", level |-> 2, subclass |-> None]
    /\ sheets[1].proficiencies.armor = <<"Light">>

\* the background key of the Decision Record is set and the dataset has no
\* background of that key
UnknownBackground ==
    /\ data.identity.background # ""
    /\ \A i \in 1..Len(BackgroundRecords) :
           Key(BackgroundRecords[i].name) # Key(data.identity.background)

\* C11: when identity.background is a key the dataset does not resolve, the
\* proficiency set of every sheet hydrated from the Decision Record equals
\* the one hydrated from the same Decision Record with the background unset.
C11_UnknownBackgroundNoOp ==
    UnknownBackground =>
        \A k \in 1..Len(sheets) :
            sheets[k].proficiencies =
                hydrate(EmptySheet,
                        [data EXCEPT !.identity.background = ""]).proficiencies

\* an unknown background was hydrated next to a class skill choice, which
\* still shows in the sheet
C11_Witness ==
    /\ UnknownBackground
    /\ Len(sheets) >= 1
    /\ data.identity.background = "Sage"
    /\ sheets[1].identity.background = "Sage"
    /\ sheets[1].proficiencies.skills["Stealth"] = 1
    /\ sheets[1].proficiencies.tools = <<>>

\* C12: hydrating a default-constructed CharacterData gives a sheet with all
\* six abilities at score 10, no skill, armor, weapon or tool proficiency
\* and an empty consolidated class list.
C12_EmptyInput ==
    (data = DefaultData) =>
        \A k \in 1..Len(sheets) :
            /\ DOMAIN sheets[k].abilities = Abilities
            /\ Cardinality(Abilities) = 6
            /\ \A a \in Abilities : sheets[k].abilities[a].score = 10
            /\ \A s \in SkillNames : sheets[k].proficiencies.skills[s] = 0
            /\ sheets[k].proficiencies.armor = <<>>
            /\ sheets[k].proficiencies.weapons = <<>>
            /\ sheets[k].proficiencies.tools = <<>>
            /\ sheets[k].identity.classes = <<>>

\* the default Decision Record has been hydrated
C12_Witness ==
    /\ data = DefaultData
    /\ Len(sheets) = MaxCalls
    /\ sheets[1].abilities["STR"].score = 10

\* C16: the equipment list of every hydrated sheet is the equipment list of
\* the Decision Record: the inventory is copied through and the starting
\* equipment of the background is not added.
C16_EquipmentCopiedThrough ==
    \A k \in 1..Len(sheets) : sheets[k].equipment = data.equipment

\* the entries of data.classes of that class that specify a subclass
SpecifyingEntries(name) ==
    {n \in 1..Len(data.classes) :
        /\ data.classes[n].class_name = name
        /\ data.classes[n].subclass \notin {None, ""}}

\* C21: the subclass of a consolidated class entry is the subclass of the
\* last entry of that class in data.classes that specifies a non-empty one;
\* an entry without a subclass never clears it, and it is unset only when no
\* entry of the class specifies one.
C21_SubclassOfLastSpecifying ==
    \A i \in 1..Len(sheets) : \A k \in 1..Len(sheets[i].identity.classes) :
        LET entry == sheets[i].identity.classes[k]
            specifying == SpecifyingEntries(entry.name)
        IN IF specifying = {}
           THEN entry.subclass \in {None, ""}
           ELSE entry.subclass =
                    data.classes[CHOOSE n \in specifying :
                                    \A m \in specifying : m <= n].subclass

\* rogue entries naming Thief, then Scout, then no subclass, wizard unset
C21_Witness ==
    /\ sheets # <<>>
    /\ Len(data.classes) = 3
    /\ \A n \in 1..3 : data.classes[n].class_name = "rogue"
    /\ data.classes[1].subclass = "Thief"
    /\ data.classes[2].subclass = "Scout"
    /\ data.classes[3].subclass = ""
    /\ sheets[1].identity.classes =
           <<[name |-> "rogue", level |-> 1, subclass |-> "Scout"]>>

\* the consolidated entry a class-level entry creates when it is the first
\* of its class
ProgressionOf(cls_data) ==
    [name |-> cls_data.class_name, level |-> cls_data.level,
     subclass |-> cls_data.subclass]

\* C22: two entries whose class_name differ only in letter case are never
\* merged: each name has its own consolidated entry, and the first entry of
\* each name is introduced as a new class, appended to the consolidated list
\* and given the base grants of the record its lower-cased name resolves to.
C22_CaseSensitiveConsolidation ==
    \A n, m \in 1..Len(data.classes) :
        LET a == data.classes[n].class_name
            b == data.classes[m].class_name
        IN (a # b /\ Lower(a) = Lower(b)) =>
            /\ \A i \in 1..Len(sheets) :
                   LET cl == sheets[i].identity.classes
                   IN \E k, l \in 1..Len(cl) :
                          k # l /\ cl[k].name = a /\ cl[l].name = b
            /\ \A e \in {FirstEntryOf(a), FirstEntryOf(b)} :
                   /\ SheetAfterEntry(e).identity.classes =
                          Append(SheetAfterEntry(e - 1).identity.classes,
                                 ProgressionOf(data.classes[e]))
                   /\ \A r \in RecordsOfClass(data.classes[e].class_name) :
                          SheetAfterEntry(e).proficiencies.armor =
                              SheetAfterEntry(e - 1).proficiencies.armor \o
                                  (IF e = 1 THEN ClassRecords[r].proficiencies.armor
                                   ELSE IF ClassRecords[r].has_multiclassing
                                   THEN ClassRecords[r].multiclassing.armor
                                   ELSE <<>>)

\* Rogue then rogue: two consolidated entries, the armor of the record
\* granted once as primary and once as multiclass
C22_Witness ==
    /\ sheets # <<>>
    /\ Len(data.classes) = 2
    /\ data.classes[1].class_name = "Rogue"
    /\ data.classes[2].class_name = "rogue"
    /\ sheets[1].identity.classes =
           <<[name |-> "Rogue", level |-> 1, subclass |-> None],
             [name |-> "rogue", level |-> 1, subclass |-> None]>>
    /\ sheets[1].proficiencies.armor = <<"Light", "Light">>
    /\ sheets[1].proficiencies.weapons = <<"Simple", "Finesse">>

\* what the multiclassing.proficiencies table of the dataset's record of a
\* class key lists under a member; nothing without a record or a table
MulticlassTable(name, member) ==
    IF RecordsOfClass(name) = {} THEN <<>>
    ELSE LET rec == ClassRecords[CHOOSE r \in RecordsOfClass(name) : TRUE]
         IN IF rec.has_multiclassing THEN rec.multiclassing[member] ELSE <<>>

\* C23: a class other than the class of data.classes[1] adds to the armor
\* and weapon lists exactly what its record's multiclassing.proficiencies
\* table lists, once, when its first entry is processed; it adds nothing
\* when the record has no such table, none of its entries sets a
\* save-proficiency flag or adds a tool, and the record's primary armor and
\* weapon lists are not added.
C23_MulticlassGrantsOnly ==
    \A e \in 2..Len(data.classes) :
        LET name == data.classes[e].class_name
            before == SheetAfterEntry(e - 1)
            after == SheetAfterEntry(e)
            first == FirstEntryOf(name) = e
        IN name # data.classes[1].class_name =>
            /\ after.proficiencies.armor =
                   before.proficiencies.armor \o
                       (IF first THEN MulticlassTable(name, "armor") ELSE <<>>)
            /\ after.proficiencies.weapons =
                   before.proficiencies.weapons \o
                       (IF first THEN MulticlassTable(name, "weapons") ELSE <<>>)
            /\ after.proficiencies.tools = before.proficiencies.tools
            /\ SaveFlags(after) = SaveFlags(before)

\* wizard first, rogue second: rogue adds the Light armor of its
\* multiclassing table and neither its weapons nor its DEX save
C23_Witness ==
    /\ sheets # <<>>
    /\ Len(data.classes) = 3
    /\ data.classes[1].class_name = "wizard"
    /\ data.classes[2].class_name = "rogue"
    /\ data.classes[3].class_name = "rogue"
    /\ sheets[1].proficiencies.armor = <<"Light">>
    /\ sheets[1].proficiencies.weapons = <<"Simple">>
    /\ ~sheets[1].abilities["DEX"].save_proficient
    /\ sheets[1].abilities["WIS"].save_proficient

\* the feature choices that name a skill under a key holding _skill_
SkillChoices ==
    {p \in ChoicePositions :
        HasSkillMarker(ChoiceAt(p).key) /\ ChoiceAt(p).value # ""}

\* C24: a non-empty _skill_ choice stored on any class-level entry, be it a
\* later level of its class, an entry of a non-primary class or an entry of
\* a class the dataset does not know, leaves its skill at level 1 or more in
\* the returned sheet.
C24_ChoicesOfEveryEntry ==
    \A p \in SkillChoices : \A i \in 1..Len(sheets) :
        sheets[i].proficiencies.skills[ChoiceAt(p).value] >= 1

\* the second level of rogue carries the only choice for Arcana, and an
\* entry of bard, unknown and not primary, the only one for Stealth
C24_Witness ==
    /\ sheets # <<>>
    /\ Len(data.classes) = 2
    /\ data.classes[1].feature_choices = <<>>
    /\ \E p \in SkillChoices : p[1] = 2
    /\ \/ /\ data.classes[1].class_name = "rogue"
          /\ data.classes[2].class_name = "rogue"
          /\ sheets[1].proficiencies.skills["Arcana"] = 1
       \/ /\ data.classes[1].class_name = "rogue"
          /\ data.classes[2].class_name = "bard"
          /\ sheets[1].proficiencies.skills["Stealth"] = 1

\* the feature choices whose key holds both _skill_ and _expertise
ExpertiseChoices ==
    {p \in SkillChoices : HasExpertiseMarker(ChoiceAt(p).key)}

\* C25: a feature choice whose key holds both _skill_ and _expertise and
\* whose value is a skill S puts S at level 2 when it is applied, whatever
\* the level of S was just before, level 0 included, and S is at level 2 in
\* the returned sheet.
C25_ExpertiseUnconditional ==
    \A p \in ExpertiseChoices :
        /\ SheetAt(p[1], p[2]).proficiencies.skills[ChoiceAt(p).value] = 2
        /\ \A i \in 1..Len(sheets) :
               sheets[i].proficiencies.skills[ChoiceAt(p).value] = 2

\* an expertise choice for a skill that nothing had made proficient
C25_Witness ==
    /\ sheets # <<>>
    /\ \E p \in ExpertiseChoices :
          /\ SheetAt(p[1], p[2] - 1).proficiencies.skills[ChoiceAt(p).value] = 0
          /\ sheets[1].proficiencies.skills[ChoiceAt(p).value] = 2

\* del feature_choices[key], on the Decision Record, for the choice at p
WithoutChoice(d, p) ==
    [d EXCEPT !.classes[p[1]].feature_choices =
        SubSeq(@, 1, p[2] - 1) \o SubSeq(@, p[2] + 1, Len(@))]

\* the feature choices whose key does not hold _skill_ or whose value is
\* empty
IgnoredChoices ==
    {p \in ChoicePositions :
        ~HasSkillMarker(ChoiceAt(p).key) \/ ChoiceAt(p).value = ""}

\* C26: a feature choice whose key does not hold _skill_ (an _asi_ key,
\* rogue_expertise_1, <feat>_attribute, any other key) and a choice whose
\* value is empty have no effect: every hydrated sheet equals the sheet
\* hydrated from the same Decision Record with that choice removed.
C26_IgnoredChoicesNoEffect ==
    \A p \in IgnoredChoices : \A i \in 1..Len(sheets) :
        sheets[i] = hydrate(EmptySheet, WithoutChoice(data, p))

\* rogue_expertise_1 = Stealth next to a skill choice that did apply
C26_Witness ==
    /\ sheets # <<>>
    /\ \E p \in IgnoredChoices :
          /\ ChoiceAt(p).key = <<"rogue", "expertise", "1">>
          /\ ChoiceAt(p).value = "Stealth"
    /\ \E q \in SkillChoices : ChoiceAt(q).value = "Arcana"
    /\ sheets[1].proficiencies.skills["Stealth"] = 0
    /\ sheets[1].proficiencies.skills["Arcana"] >= 1

\* skilled_attribute and an unrecognized key, both with a value, hydrated
C26_WitnessOtherKeys ==
    /\ sheets # <<>>
    /\ Len(data.classes) = 1
    /\ Len(data.classes[1].feature_choices) = 2
    /\ data.classes[1].feature_choices[1] =
           [key |-> <<"skilled", "attribute">>, value |-> "Stealth"]
    /\ data.classes[1].feature_choices[2] =
           [key |-> <<"notes">>, value |-> "Arcana"]
    /\ \A sk \in SkillNames : sheets[1].proficiencies.skills[sk] = 0

\* what the entry at position e of data.classes may add to a list of the
\* proficiency set when it is not given primary grants
NonPrimaryGrant(e, member) ==
    IF FirstEntryOf(data.classes[e].class_name) = e
    THEN MulticlassTable(data.classes[e].class_name, member)
    ELSE <<>>

\* C28: primary grants go to at most one class, the class of
\* data.classes[1]: every entry after the first one adds to armor and
\* weapons at most the multiclassing table of its class and sets no save
\* flag; when the first class has no record in the dataset, no save flag is
\* set in the returned sheet and the first entry adds no armor and no
\* weapon, the later classes still being granted as multiclass.
C28_PrimaryOnlyFirstClass ==
    /\ \A e \in 2..Len(data.classes) :
           /\ SheetAfterEntry(e).proficiencies.armor =
                  SheetAfterEntry(e - 1).proficiencies.armor \o
                      NonPrimaryGrant(e, "armor")
           /\ SheetAfterEntry(e).proficiencies.weapons =
                  SheetAfterEntry(e - 1).proficiencies.weapons \o
                      NonPrimaryGrant(e, "weapons")
           /\ SaveFlags(SheetAfterEntry(e)) = SaveFlags(SheetAfterEntry(e - 1))
    /\ (data.classes # <<>> /\ UnknownClass(data.classes[1].class_name)) =>
           /\ SheetAfterEntry(1).proficiencies.armor = <<>>
           /\ SheetAfterEntry(1).proficiencies.weapons = <<>>
           /\ \A i \in 1..Len(sheets) : \A a \in Abilities :
                  ~sheets[i].abilities[a].save_proficient

\* bard, unknown to the dataset, then rogue and wizard: rogue gets the armor
\* of its multiclassing table only and no save is flagged
C28_Witness ==
    /\ sheets # <<>>
    /\ Len(data.classes) = 3
    /\ data.classes[1].class_name = "bard"
    /\ data.classes[2].class_name = "rogue"
    /\ data.classes[3].class_name = "wizard"
    /\ sheets[1].proficiencies.armor = <<"Light">>
    /\ sheets[1].proficiencies.weapons = <<>>
    /\ \A a \in Abilities : ~sheets[1].abilities[a].save_proficient

(***************************************************************************)
(* Properties of the builder                                               *)
(***************************************************************************)
\* C2: after any sequence of Creation and Leveling edits, the sheet that
\* get_result returns is hydrate applied to the Decision Record it returns.
C2_ResultIsHydrated ==
    get_result.sheet = hydrate(EmptySheet, get_result.data)

\* the dropdowns of the Leveling tab, as (entry, option) positions
ShownSlots ==
    {<<e, o>> \in (1..Len(entries)) \X (1..8) : o <= Len(entries[e].options)}

SlotAt(p) == entries[p[1]].options[p[2]]

SkillSlots == {p \in ShownSlots : SlotAt(p).kind \in {"class_skill", "feat_skill"}}

\* the skills the rule record of a slot lets the slot hold
AllowedBySlot(p) ==
    IF SlotAt(p).kind = "class_skill"
    THEN UNION {ElementsOf(ClassRecords[r].proficiencies.skill_list) :
                    r \in RecordsOfClass(entries[p[1]].class_name)}
    ELSE UNION {IF Contains(FeatRecords[f].proficiency_skills, "any")
                THEN SkillNames
                ELSE ElementsOf(FeatRecords[f].proficiency_skills) :
                    f \in {g \in 1..Len(FeatRecords) :
                              FeatKeyBase(FeatRecords[g].name)
                                  \o <<"skill", "proficiency">> = SlotAt(p).key}}

\* C7 as stated: every shown skill slot whose stored value is not empty
\* offers that value among its candidates.
C7_StoredValueOffered ==
    \A p \in SkillSlots :
        SlotAt(p).current # "" => SlotAt(p).current \in Values(SlotAt(p).options)

\* C7, amended: every shown skill slot whose stored value is not empty and is
\* a skill its own rule record allows (the class's skill_list; the feat's
\* skills list, or any skill when that list holds "any") offers that value
\* among its candidates, also when the sheet marks the skill proficient.
C7_AllowedStoredValueOffered ==
    \A p \in SkillSlots :
        (SlotAt(p).current # "" /\ SlotAt(p).current \in AllowedBySlot(p))
            => SlotAt(p).current \in Values(SlotAt(p).options)

\* a class slot and a feat slot both hold a skill the rehydrated sheet marks
\* proficient
C7_Witness ==
    /\ ~shared
    /\ \E p, q \in SkillSlots :
          /\ SlotAt(p).kind = "class_skill" /\ SlotAt(q).kind = "feat_skill"
          /\ SlotAt(p).current = "Stealth" /\ SlotAt(q).current = "Insight"
          /\ tabSheet.proficiencies.skills["Stealth"] >= 1
          /\ tabSheet.proficiencies.skills["Insight"] >= 1
          /\ "Stealth" \in Values(SlotAt(p).options)
          /\ "Insight" \in Values(SlotAt(q).options)

\* C8: in a session opened on an empty class list, every entry of
\* data.classes has the level of its 1-based position among the entries of
\* its class.
C8_LevelsAreOrdinals ==
    recData.classes = <<>> =>
    \A i \in 1..Len(bData.classes) :
        bData.classes[i].level =
            Cardinality({j \in 1..i :
                bData.classes[j].class_name = bData.classes[i].class_name})

\* the values of a candidate list, each once
NoRepeats(opts) ==
    \A i, j \in 1..Len(opts) : i # j => opts[i].value # opts[j].value

\* the skills of the Leveling tab's sheet at a proficiency level
SkillsAt(level) == {s \in SkillNames : tabSheet.proficiencies.skills[s] = level}

\* C17: the skill-proficiency candidates computed from the hydrated sheet
\* and a set of pending selections are exactly the skills at level 0 in the
\* sheet that are not among the pending selections.
C17_ProficiencyCandidates ==
    \A pending \in SUBSET SkillNames :
        /\ Values(get_available_skill_proficiencies(tabSheet, pending))
               = SkillsAt(0) \ pending
        /\ NoRepeats(get_available_skill_proficiencies(tabSheet, pending))

\* the tab's sheet was rehydrated and holds both a proficient skill and
\* skills still open, and a class skill dropdown was built from it
C17_Witness ==
    /\ ~shared
    /\ SkillsAt(0) # {}
    /\ SkillsAt(1) # {}
    /\ \E p \in ShownSlots : SlotAt(p).kind = "class_skill"

\* C18: the skill-expertise candidates computed from the hydrated sheet are
\* exactly the skills at level 1: a skill at level 0 and a skill already at
\* level 2 are not offered.
C18_ExpertiseCandidates ==
    /\ Values(get_available_skill_expertises(tabSheet, {})) = SkillsAt(1)
    /\ NoRepeats(get_available_skill_expertises(tabSheet, {}))

\* the tab's sheet holds a skill at each of the levels 0, 1 and 2, and an
\* expertise dropdown was built from it
C18_Witness ==
    /\ ~shared
    /\ SkillsAt(0) # {}
    /\ SkillsAt(1) # {}
    /\ SkillsAt(2) # {}
    /\ \E p \in ShownSlots : SlotAt(p).kind = "expertise"

\* str.lower() of a display label
FoldCase(l) ==
    CASE l \in {"Arcana", "arcana"} -> "arcana"
      [] l \in {"Insight", "insight"} -> "insight"
      [] l \in {"Stealth", "stealth"} -> "stealth"
      [] l = "STR" -> "str"
      [] l = "DEX" -> "dex"
      [] l = "CON" -> "con"
      [] l = "INT" -> "int"
      [] l = "WIS" -> "wis"
      [] l = "CHA" -> "cha"
      [] OTHER -> l

\* the order of the folded labels
FoldedOrder ==
    <<"arcana", "cha", "con", "dex", "insight", "int", "stealth", "str", "wis">>

FoldedRank(l) == CHOOSE i \in 1..Len(FoldedOrder) : FoldedOrder[i] = FoldCase(l)

\* C19: every candidate list handed to a dropdown of the Leveling tab is
\* sorted by display label, compared case-insensitively.
C19_CandidatesSortedByLabel ==
    \A p \in ShownSlots :
        \A i, j \in 1..Len(SlotAt(p).options) :
            i < j => FoldedRank(SlotAt(p).options[i].label)
                         <= FoldedRank(SlotAt(p).options[j].label)

\* the value stored for class skill slot i of the primary class level
SlotValue(i) ==
    ChoiceGet(bData.classes[1].feature_choices,
              <<Lower(bData.classes[1].class_name), "skill", Digit(i)>>)

\* the numbers of the class skill slots of the primary class level
SlotNumbers ==
    IF bData.classes = <<>> THEN {}
    ELSE LET found == class_record(bData.classes[1].class_name)
         IN IF found = NoRecord THEN {}
            ELSE 1..found[1].proficiencies.skills_choose

\* C27: starting from a primary class level whose skill slots are empty,
\* after any sequence of feature-choice edits that each pick a value the
\* edited dropdown offers, each followed by rehydration and refresh, no two
\* sibling slots <class>_skill_1, <class>_skill_2, ... hold the same skill.
C27_SiblingSlotsDistinct ==
    \A i, j \in SlotNumbers :
        (i # j /\ SlotValue(i) # "") => SlotValue(i) # SlotValue(j)

\* both skill slots of a Rogue filled, the second after the first
C27_Witness ==
    /\ bData.classes[1].class_name = "Rogue"
    /\ SlotValue(1) = "Insight"
    /\ SlotValue(2) = "Stealth"
    /\ tabSheet.proficiencies.skills["Insight"] = 1
    /\ \E e \in 1..Len(entries) : \E o \in 1..Len(entries[e].options) :
          /\ entries[e].options[o].key = <<"rogue", "skill", "2">>
          /\ Values(entries[e].options[o].options) = {"Stealth"}

(***************************************************************************)
(* Properties of the library                                               *)
(***************************************************************************)
\* any listing of the files: the records of the loaded library do not
\* depend on it
SomeListing == CHOOSE rest \in Listings(files) : TRUE

\* C9: save() then load() gives, for every record of the library, a record
\* of the same identifier holding the Decision Record the record held before
\* the save, with the sheet hydrate makes of that Decision Record.
C9_SaveLoadRoundTrip ==
    LET loaded == LoadedLibrary(SomeListing).records
    IN \A id \in DOMAIN records :
          /\ id \in DOMAIN loaded
          /\ loaded[id].identifier = id
          /\ loaded[id].data = records[id].data
          /\ \A k \in 1..Len(loaded[id].data) :
                 loaded[id].sheet = hydrate(EmptySheet, loaded[id].data[k])

\* the library has been loaded from the directory
Loaded == DOMAIN records # {}

\* the stored data member is missing (absent, null or empty) or is one of
\* the trees that cannot be parsed
MissingOrUnparseable(payload) ==
    payload.data \in {<<>>, <<[scalar |-> None]>>, <<[scalar |-> ""]>>}
                     \cup {<<t>> : t \in UnparseableTrees}

MemberOr(t, f, default) == IF f \in DOMAIN t THEN t[f] ELSE default

\* the Decision Record the claim describes for a tree: known members kept,
\* unknown members dropped, absent members at their defaults
ExpectedClassLevel(t) ==
    [class_name |-> MemberOr(t, "class_name", ""),
     level |-> MemberOr(t, "level", 1),
     subclass |-> MemberOr(t, "subclass", None),
     feature_choices |-> MemberOr(t, "feature_choices", <<>>)]

ExpectedIdentity(t) ==
    [f \in {"name", "ancestry", "ancestry_subtype", "background", "alignment",
            "player_name", "portrait_path", "xp", "level_cap"} |->
        IF "identity" \in DOMAIN t /\ f \in DOMAIN t.identity
        THEN t.identity[f]
        ELSE IF f = "level_cap" THEN 20 ELSE IF f = "xp" THEN 0 ELSE ""]

ExpectedData(t) ==
    [version |-> MemberOr(t, "version", "1.0"),
     id |-> MemberOr(t, "id", FreshDataId),
     identity |-> ExpectedIdentity(t),
     base_stats |-> MemberOr(t, "base_stats", [a \in Abilities |-> 10]),
     classes |-> IF "classes" \in DOMAIN t
                 THEN [i \in 1..Len(t.classes) |-> ExpectedClassLevel(t.classes[i])]
                 ELSE <<>>,
     background_choices |-> MemberOr(t, "background_choices", <<>>),
     equipment |-> MemberOr(t, "equipment", <<>>),
     notes |-> MemberOr(t, "notes", <<>>)]

\* C14: from_dict(asdict(D)) is D for every Decision Record D, and from_dict
\* of a tree with unknown members or with members absent is the record with
\* the unknown members dropped and the absent ones at their defaults.
C14_FromDictRoundTrip ==
    Loaded =>
        \A id \in DOMAIN files :
            \A t \in PartialTrees \cup ExtendedTrees :
                files[id].data = <<t>> =>
                    /\ records[id].data = <<ExpectedData(t)>>
                    /\ \A d \in LibraryData :
                           t = asdict(d) => records[id].data = <<d>>

\* a tree with an unknown member at the top, an identity without xp and a
\* class entry without class_name was read
C14_Witness ==
    /\ Loaded
    /\ files["u1"].data # <<>>
    /\ "legacy_sheet" \in DOMAIN files["u1"].data[1]
    /\ "xp" \notin DOMAIN files["u1"].data[1].identity
    /\ files["u1"].data[1].classes = <<[level |-> 2, subclass |-> "Thief"]>>
    /\ "legacy_sheet" \notin DOMAIN records["u1"].data[1]
    /\ records["u1"].data[1].identity.xp = 0
    /\ records["u1"].data[1].classes[1].class_name = ""

\* a tree written by save() for a Decision Record with a class level was
\* read back
C14_WitnessRoundTrip ==
    /\ Loaded
    /\ \E d \in LibraryData :
          /\ d.classes # <<>>
          /\ files["u1"].data = <<asdict(d)>>
          /\ records["u1"].data = <<d>>

\* C29: after any sequence of create_record, update_record, delete_record,
\* set_active, ensure_active and replace_all calls, active_id is None exactly
\* when the library holds no record, and is otherwise the identifier of a
\* record of the library.
C29_ActiveIdNamesARecord ==
    /\ (active_id = None) <=> (DOMAIN records = {})
    /\ active_id # None => active_id \in DOMAIN records

\* list_records(): [self._records[identifier] for identifier in self._order]
\* finds a record for every identifier of the order
ListRecordsReturns == \A i \in 1..Len(order) : order[i] \in DOMAIN records

\* C30: after any sequence of create_record, update_record, delete_record
\* and replace_all calls, on a library load() built included, the order
\* holds every identifier of the record map exactly once and nothing else,
\* so that list_records returns each record once and does not raise.
C30_OrderListsEachRecordOnce ==
    /\ ListRecordsReturns
    /\ {order[i] : i \in 1..Len(order)} = DOMAIN records
    /\ \A i, j \in 1..Len(order) : i # j => order[i] # order[j]

\* load() has read a file and its copy: the identifier is twice in the order
C30_LoadedCopy ==
    /\ CopyName \in DOMAIN files
    /\ meta.order = <<>>
    /\ DOMAIN records = {"u1"}
    /\ order = <<"u1", "u1">>

(***************************************************************************)
(* Properties of the compendium cache                                      *)
(***************************************************************************)
\* the positions of the load calls, and of the clear calls
Loads == {i \in 1..Len(calls) : calls[i].op = "load"}

Clears == {i \in 1..Len(calls) : calls[i].op = "clear"}

SameKey(i, j) ==
    calls[i].target = calls[j].target /\ calls[i].modules = calls[j].modules

\* C15: two loads of the same (target path, active-module set) key with no
\* clear between them return the same instance and only the first of them
\* reads the dataset from disk; the first load of a key after a clear, and
\* the first load of a key at all, reads it.
C15_LoadedOncePerKey ==
    /\ \A i, j \in Loads :
          (i < j /\ SameKey(i, j) /\ ~\E c \in Clears : i < c /\ c < j) =>
              /\ calls[j].instance = calls[i].instance
              /\ ~calls[j].read
    /\ \A j \in Loads :
          (\A i \in Loads : (i < j /\ SameKey(i, j)) => \E c \in Clears : i < c /\ c < j)
              => calls[j].read
    /\ \A i, j \in Loads :
          (i < j /\ calls[i].read /\ calls[j].read) =>
              calls[i].instance # calls[j].instance

\* a key was loaded twice in a row, cleared and loaded again
C15_Witness ==
    \E i, j, k \in Loads : \E c \in Clears :
        /\ i < j /\ j < c /\ c < k
        /\ SameKey(i, j) /\ SameKey(j, k)
        /\ calls[i].read /\ ~calls[j].read /\ calls[k].read
        /\ calls[i].instance = calls[j].instance
        /\ calls[k].instance # calls[i].instance

(***************************************************************************)
(* Properties of the objects hydrate touches                               *)
(***************************************************************************)
\* the lists a returned sheet holds, as objects
ListsOf(refs) == {refs.armor, refs.weapons, refs.tools}

\* the object model and the sheets agree on what the lists of the sheet hold
ObjectsAgreeWithSheets ==
    \A k \in 1..Len(sheets) :
        \A after \in {ObjectsAfterHydrate(DatasetLists, data)} :
           /\ after.lists[after.refs.armor] = sheets[k].proficiencies.armor
           /\ after.lists[after.refs.weapons] = sheets[k].proficiencies.weapons
           /\ after.lists[after.refs.tools] = sheets[k].proficiencies.tools
           /\ after.identity.sheet.name = sheets[k].identity.name
           /\ after.identity.sheet.experience = sheets[k].identity.experience

\* C20: no hydrate call changes the Decision Record passed in or a list of a
\* class or background record of the dataset, and no list of a returned
\* sheet is the same object as a list of a dataset record.
C20_InputsNotModified ==
    [][/\ data' = data
       /\ dataset' = dataset
       /\ dataset' = DatasetLists
       /\ \A k \in 1..Len(sheetRefs') :
              ListsOf(sheetRefs'[k]) \cap DOMAIN dataset = {}]_vars

\* a multiclass Decision Record with a background was hydrated twice: the
\* sheet's lists hold the granted elements and the dataset's lists are as
\* they were
C20_Witness ==
    /\ Len(sheets) = MaxCalls
    /\ Len(sheetRefs) = MaxCalls
    /\ \E k \in 1..Len(sheets) :
          /\ Len(sheets[k].identity.classes) >= 2
          /\ sheets[k].proficiencies.weapons # <<>>
          /\ sheets[k].proficiencies.armor = dataset[<<"Rogue", "mc_armor">>]
          /\ sheetRefs[k].armor # <<"Rogue", "mc_armor">>
    /\ dataset = DatasetLists

====
